---- MODULE Spec2Model ----
(***************************************************************************)
(* A model of the attachment-aware summary pipeline of the channel         *)
(* summariser bot: RateLimiter.execute (src/main.py, src/summary.py) and   *)
(* ChannelSummarizer.post_summary with process_topic and                   *)
(* process_unused_attachments (src/main.py).                               *)
(***************************************************************************)
EXTENDS Integers, Sequences, FiniteSets, TLC

(***************************************************************************)
(* Generic helpers                                                         *)
(***************************************************************************)
Min(a, b) == IF a <= b THEN a ELSE b

(***************************************************************************)
(* RateLimiter (src/main.py:148-216, src/summary.py:47-115)                *)
(***************************************************************************)
\* self.base_delay = 1.0, self.max_delay = 64.0 (seconds), max_retries = 5
base_delay == 1
max_delay == 64
max_retries == 5

\* self.jitter = 0.1: random.uniform(-0.1, 0.1), sampled in tenths.
JitterTenths == {-1, 0, 1}

\* Destination keys handed to execute ("channel_<id>").
Keys == {"channel_1", "channel_2"}

\* e.retry_after of a 429: absent (None), 0 (falsy) or a positive duration.
NoRetryAfter == -1
RetryAfters == {NoRetryAfter, 0, 3}

\* The two copies of the class: main.py logs through self.logger, which
\* RateLimiter.__init__ never sets; summary.py logs through the module logger.
Variants == {"main", "summary"}

VARIABLES
    backoff_times,  \* key -> stored delay in seconds, 0 when the key is absent
    rl_variant,     \* which copy of RateLimiter is running
    rl_pc,          \* "idle" | "loop" | "returned" | "raised"
    rl_key,         \* key of the call in progress
    rl_reusable,    \* TRUE when the awaitable can be awaited again
    attempt,        \* the local counter of failed attempts
    awaits,         \* number of times the awaitable was awaited in this call
    sleeps,         \* asyncio.sleep calls of the latest loop iteration
    outcome,        \* what the latest await produced
    all_transient,  \* every attempt of this call failed 429-without-duration or HTTP error
    rl_result       \* what the call handed to its caller

rlVars == <<backoff_times, rl_variant, rl_pc, rl_key, rl_reusable, attempt,
            awaits, sleeps, outcome, all_transient, rl_result>>

\* The state of one post_summary run (src/main.py)
VARIABLES
    db,                 \* channel id -> persisted summary thread id or None
    old_thread,         \* platform state of T_OLD: "ok" | "orphan" | "deleted"
    prior,              \* filenames attached to T_OLD's messages before this run
    attachment_cache,   \* insertion-ordered buckets of AttachmentHandler
    topics,             \* the topics of the summary: each the set of links in its text
    pc,                 \* position of post_summary
    ti,                 \* index of the next topic
    existing_thread_id, \* post_summary locals
    source_thread,
    thread_existed,
    thread,
    used_message_ids,
    used_files,
    used_filenames,     \* thread -> the locals of the process_unused_attachments
    unused_attachments, \*           call made for that thread
    created,            \* threads created by this run: <<thread id, parent channel>>
    sent,               \* messages sent by this run, in order
    failures            \* platform calls that have failed in this run

psVars == <<db, old_thread, prior, attachment_cache, topics, pc, ti, existing_thread_id,
            source_thread, thread_existed, thread, used_message_ids, used_files,
            used_filenames, unused_attachments, created, sent, failures>>

\* One call of MessageFormatter.chunk_content (src/main.py:339-369)
VARIABLES
    cc_content,     \* the text handed in, a sequence of characters
    cc_max,         \* max_length
    cc_pc,          \* "call" | "done"
    cc_chunks       \* the list returned

ccVars == <<cc_content, cc_max, cc_pc, cc_chunks>>

\* AttachmentHandler.process_attachment (src/main.py:236-275): the calls made on the
\* handler whose cache is attachment_cache
VARIABLES
    pa_call,        \* the latest call: its arguments, the download and what it returned
    pa_calls,       \* number of calls made
    pa_log,         \* attachments the handler logged as skipped or failed
    inserted        \* the records appended to the cache since it was last cleared, in order

paVars == <<pa_call, pa_calls, pa_log, inserted>>

\* ChannelSummarizer.generate_summary (src/main.py:1347-1412) with
\* get_channel_history (src/main.py:516-627)
VARIABLES
    dev_mode,               \* self.dev_mode
    channels_to_monitor,    \* channels_to_monitor, or dev_channels_to_monitor in dev mode
    gs_reach,               \* the channels get_channel finds when the list is built
    channels_to_process,    \* the list the loop runs over
    gs_pc,                  \* "build" | "next" | "scan" | "summarise" | "post" | "done" |
                            \* "aborted"
    gs_ci,                  \* index of the channel of the current iteration
    gs_mi,                  \* index of the message the scan is at
    gs_ai,                  \* index of the next attachment of that message
    messages,               \* len(messages) of the current scan
    cache_iter,             \* for each bucket of the cache, the iteration that added it
    active_channels,        \* active_channels: some channel had noteworthy activity
    gs_videos,              \* the cache keys under which this run cached a video
    top_candidates          \* the cache keys create_top_generations_thread reads videos from

gsVars ==
    <<dev_mode, channels_to_monitor, gs_reach, channels_to_process, gs_pc, gs_ci, gs_mi, gs_ai,
      messages, cache_iter, active_channels, gs_videos, top_candidates>>

\* The pipeline state without the cache
psRest == <<db, old_thread, prior, topics, pc, ti, existing_thread_id,
            source_thread, thread_existed, thread, used_message_ids, used_files,
            used_filenames, unused_attachments, created, sent, failures>>

\* The attachment selection of one process_topic call (src/main.py:942-974)
VARIABLES
    tp_links,       \* chunk_message_ids: the links found in the topic text
    tp_order,       \* the order in which the set was iterated
    tp_pc,          \* "select" | "done" | "again"
    tp_files,    \* the files selected for the topic
    tp_files2    \* the files selected when the same topic is processed again

tpVars == <<tp_links, tp_order, tp_pc, tp_files, tp_files2>>

\* What the rate limiter and post_summary leave alone
fnVars == <<ccVars, paVars, gsVars, tpVars>>

\* process_unused_attachments, one call followed send by send
VARIABLES
    ua_max,      \* max_attachments
    ua_ids,      \* used_message_ids
    ua_names,    \* used_filenames once the thread's history is read
    ua_pc,       \* "collect" | "header" | "entries" | "footer" | "done" | "raised"
    ua_found,    \* unused_attachments after the sort
    ua_i,        \* index of the next entry to post
    ua_failed,   \* indices of the entries whose send failed
    ua_sent      \* the messages posted to the thread by this call
uaVars == <<ua_max, ua_ids, ua_names, ua_pc, ua_found, ua_i, ua_failed, ua_sent>>

\* Concurrent generate_summary invocations on one bot (summariser.py)
VARIABLES
    lk_locked,   \* _summary_lock._locked
    lk_waiters,  \* _summary_lock._waiters: the invocations waiting, oldest first
    lk_woken,    \* the waiters whose future has been resolved by a release
    lk_pc,       \* per invocation: "idle" | "waiting" | "body" | "returned" | "raised"
    lk_step      \* per invocation: the awaits of the body passed so far
lkVars == <<lk_locked, lk_waiters, lk_woken, lk_pc, lk_step>>

\* post_summary: the split of the summary into topics
VARIABLES
    sp_summary,  \* summary, a sequence of characters
    sp_pc,       \* "split" | "done"
    sp_topics    \* the topics list handed to process_topic
spVars == <<sp_summary, sp_pc, sp_topics>>

\* generate_short_summary, one call
VARIABLES
    ss_variant,     \* "main" (src/main.py) | "summariser" (summariser.py)
    ss_pc,          \* "attempt" | "sleep" | "returned" | "raised"
    retry_count,    \* retry_count
    ss_outcomes,    \* the outcome of each LLM call made so far
    ss_result       \* what the call returned
ssVars == <<ss_variant, ss_pc, retry_count, ss_outcomes, ss_result>>

fn2Vars == <<uaVars, lkVars, spVars, ssVars>>

\* main(): the ready events of one process and the tasks they start (src/main.py)
VARIABLES
    sd_run_now,  \* args.run_now
    sd_tasks,    \* one record per ready event handled: the coroutine it started
    sd_closed    \* bot.close() has been called
sdVars == <<sd_run_now, sd_tasks, sd_closed>>

\* schedule_daily_summary of summariser.py, one task; times in hours since 00:00 UTC
\* of the day the task starts
VARIABLES
    ds_now,       \* datetime.utcnow()
    ds_pc,        \* "top" | "wait" | "run" | "rest" | "stopped"
    ds_run_time,  \* run_time
    ds_starts,    \* the times at which generate_summary was started, oldest first
    ds_shutdown   \* bot._shutdown_flag
dsVars == <<ds_now, ds_pc, ds_run_time, ds_starts, ds_shutdown>>

\* cleanup and the end of generate_summary on one bot (summariser.py)
VARIABLES
    cl_shutdown_flag,  \* self._shutdown_flag
    cl_session,        \* self.session: "none" | "open" | "closed"
    cl_claude,         \* self.claude is a client, not None
    cl_db,             \* self.db is a handler with its connection, not None
    cl_pc,             \* a cleanup call: "idle" | "closing" | "grace"
    cl_gs_pc,          \* generate_summary: "idle" | "body" | "returned" | "raised"
    cl_gs_step,        \* the awaits of the body passed so far
    cl_triggered       \* the finally clause's cleanup: "none" | "not_called" | "skipped" | "ran"
clVars == <<cl_shutdown_flag, cl_session, cl_claude, cl_db, cl_pc, cl_gs_pc, cl_gs_step,
            cl_triggered>>

\* BaseDiscordBot: the connection health state of one bot (base_bot.py); times in
\* health check periods of 30 s
VARIABLES
    _connection_healthy,    \* self._connection_healthy
    bb_heartbeat_age,       \* now - self._last_heartbeat; -1 while _last_heartbeat is None
    _failed_session_count,  \* self._failed_session_count
    bb_session,             \* self._last_session_id is set
    bb_closed,              \* close() has been called
    bb_error_handler,       \* self.error_handler has been set by on_ready
    bb_check                \* what _is_connection_healthy returned if it ran last, else "none"
bbVars == <<_connection_healthy, bb_heartbeat_age, _failed_session_count, bb_session,
            bb_closed, bb_error_handler, bb_check>>

\* Sharer.finalize_sharing, one call at a time (sharer.py)
VARIABLES
    sh_member,      \* what db_handler.get_member(user_id) finds now
    sh_at_call,     \* what it found when the current call read it; "unread" before
    sh_pc,          \* "idle" | "fetch" | "download" | "title" | "tweet" | "zapier" | "done"
    sh_files,       \* the filenames of message_object.attachments
    sh_i,           \* index of the next attachment to download
    sh_attempted,   \* the attachments this call asked _download_attachment for
    sh_downloaded,  \* downloaded_attachments
    sh_posts        \* the platforms this call has posted to, in order
shVars == <<sh_member, sh_at_call, sh_pc, sh_files, sh_i, sh_attempted, sh_downloaded,
            sh_posts>>

fn3Vars == <<sdVars, dsVars, clVars, bbVars, shVars>>
sdRest == <<dsVars, clVars, bbVars, shVars>>
dsRest == <<sdVars, clVars, bbVars, shVars>>
clRest == <<sdVars, dsVars, bbVars, shVars>>
bbRest == <<sdVars, dsVars, clVars, shVars>>
shRest == <<sdVars, dsVars, clVars, bbVars>>

\* asyncio.sleep(d * (1 + jitter)): the duration in tenths of a second.
JitteredSleep(kind, d, j) ==
    [kind |-> kind, nominal |-> d, tenths |-> 10 * d + d * j, jittered |-> TRUE]

\* asyncio.sleep(d)
PlainSleep(kind, d) ==
    [kind |-> kind, nominal |-> d, tenths |-> 10 * d, jittered |-> FALSE]

\* `if key in self.backoff_times: ... await asyncio.sleep(backoff * (1 + jitter))`
PreSleep(j) ==
    IF backoff_times[rl_key] # 0
    THEN <<JitteredSleep("pre", backoff_times[rl_key], j)>>
    ELSE <<>>

\* `await asyncio.sleep(retry_after)`
RetryAfterSleep(ra) == PlainSleep("retry_after", ra)

\* `await asyncio.sleep(next_delay)`
BackoffSleep(d) == PlainSleep("backoff", d)

\* `self.backoff_times.get(key, self.base_delay)`
CurrentDelay(k) == IF backoff_times[k] = 0 THEN base_delay ELSE backoff_times[k]

\* the doubling without the cap
NextDelayUncapped(cur) == cur * 2

\* `next_delay = min(current_delay * 2, self.max_delay)`
NextDelay(cur) == Min(cur * 2, max_delay)

\* a success that leaves the stored delay as it is
OnSuccessDelayKept(cur) == IF cur = 0 THEN base_delay ELSE cur

\* `self.backoff_times[key] = self.base_delay` (reset on success)
OnSuccessDelay(cur) == base_delay

\* `if retry_after:` (None and 0 are falsy)
Truthy(ra) == ra # NoRetryAfter /\ ra # 0

\* self.logger.* raises AttributeError in main.py; logger.* works in summary.py
LoggerMissing == rl_variant = "main"

\* a loop that is entered whatever the count of attempts
InLoopUnbounded == rl_pc = "loop"
\* `while attempt < max_retries:` entered
InLoop == rl_pc = "loop" /\ attempt < max_retries

\* A coroutine object can be awaited once; awaiting it again raises
\* RuntimeError("cannot reuse already awaited coroutine").
CanAwait == rl_reusable \/ awaits = 0

NoOutcome == [kind |-> "none", retry_after |-> NoRetryAfter]

RL_Call(k, r) ==
    /\ UNCHANGED <<psVars, fnVars, fn2Vars, fn3Vars>>
    /\ rl_pc = "idle"
    /\ rl_pc' = "loop"
    /\ rl_key' = k
    /\ rl_reusable' = r
    /\ attempt' = 0
    /\ awaits' = 0
    /\ sleeps' = <<>>
    /\ outcome' = NoOutcome
    /\ all_transient' = TRUE
    /\ rl_result' = "pending"
    /\ UNCHANGED <<backoff_times, rl_variant>>

\* The awaited operation succeeds: reset the backoff and return its result.
RL_Success(j) ==
    /\ UNCHANGED <<psVars, fnVars, fn2Vars, fn3Vars>>
    /\ InLoop /\ CanAwait
    /\ sleeps' = PreSleep(j)
    /\ awaits' = awaits + 1
    /\ outcome' = [kind |-> "ok", retry_after |-> NoRetryAfter]
    /\ backoff_times' = [backoff_times EXCEPT ![rl_key] = OnSuccessDelay(@)]
    /\ rl_pc' = "returned"
    /\ rl_result' = "result"
    /\ all_transient' = FALSE
    /\ UNCHANGED <<rl_variant, rl_key, rl_reusable, attempt>>

\* HTTPException with status 429 and a truthy retry_after.
RL_RetryAfter(j, ra) ==
    /\ UNCHANGED <<psVars, fnVars, fn2Vars, fn3Vars>>
    /\ InLoop /\ CanAwait /\ Truthy(ra)
    /\ awaits' = awaits + 1
    /\ outcome' = [kind |-> "429", retry_after |-> ra]
    /\ attempt' = attempt + 1
    /\ all_transient' = FALSE
    /\ IF LoggerMissing
       THEN /\ sleeps' = PreSleep(j)
            /\ rl_pc' = "raised"
            /\ rl_result' = "AttributeError"
       ELSE /\ sleeps' = PreSleep(j) \o <<RetryAfterSleep(ra)>>
            /\ UNCHANGED <<rl_pc, rl_result>>
    /\ UNCHANGED <<backoff_times, rl_variant, rl_key, rl_reusable>>

\* HTTPException with status 429 and no (or a falsy) retry_after.
RL_RateLimitBackoff(j, ra) ==
    /\ UNCHANGED <<psVars, fnVars, fn2Vars, fn3Vars>>
    /\ InLoop /\ CanAwait /\ ~Truthy(ra)
    /\ awaits' = awaits + 1
    /\ outcome' = [kind |-> "429", retry_after |-> ra]
    /\ attempt' = attempt + 1
    /\ backoff_times' = [backoff_times EXCEPT ![rl_key] = NextDelay(CurrentDelay(rl_key))]
    /\ IF LoggerMissing
       THEN /\ sleeps' = PreSleep(j)
            /\ rl_pc' = "raised"
            /\ rl_result' = "AttributeError"
       ELSE /\ sleeps' = PreSleep(j) \o <<BackoffSleep(NextDelay(CurrentDelay(rl_key)))>>
            /\ UNCHANGED <<rl_pc, rl_result>>
    /\ UNCHANGED <<rl_variant, rl_key, rl_reusable, all_transient>>

\* HTTPException with another status.
RL_HttpError(j) ==
    /\ UNCHANGED <<psVars, fnVars, fn2Vars, fn3Vars>>
    /\ InLoop /\ CanAwait
    /\ awaits' = awaits + 1
    /\ outcome' = [kind |-> "http", retry_after |-> NoRetryAfter]
    /\ attempt' = attempt + 1
    /\ IF LoggerMissing
       THEN /\ sleeps' = PreSleep(j)
            /\ rl_pc' = "raised"
            /\ rl_result' = "AttributeError"
            /\ UNCHANGED backoff_times
       ELSE IF attempt + 1 = max_retries
            THEN /\ sleeps' = PreSleep(j)
                 /\ rl_pc' = "raised"
                 /\ rl_result' = "HTTPException"
                 /\ UNCHANGED backoff_times
            ELSE /\ backoff_times' =
                      [backoff_times EXCEPT ![rl_key] = NextDelay(CurrentDelay(rl_key))]
                 /\ sleeps' = PreSleep(j) \o <<BackoffSleep(NextDelay(CurrentDelay(rl_key)))>>
                 /\ UNCHANGED <<rl_pc, rl_result>>
    /\ UNCHANGED <<rl_variant, rl_key, rl_reusable, all_transient>>

\* Any other exception raised by the awaited operation.
RL_Unexpected(j) ==
    /\ UNCHANGED <<psVars, fnVars, fn2Vars, fn3Vars>>
    /\ InLoop /\ CanAwait
    /\ sleeps' = PreSleep(j)
    /\ awaits' = awaits + 1
    /\ outcome' = [kind |-> "unexpected", retry_after |-> NoRetryAfter]
    /\ rl_pc' = "raised"
    /\ rl_result' = IF LoggerMissing THEN "AttributeError" ELSE "Exception"
    /\ all_transient' = FALSE
    /\ UNCHANGED <<backoff_times, rl_variant, rl_key, rl_reusable, attempt>>

\* The coroutine object was already awaited: `await coroutine` raises RuntimeError.
RL_ReuseError(j) ==
    /\ UNCHANGED <<psVars, fnVars, fn2Vars, fn3Vars>>
    /\ InLoop /\ ~CanAwait
    /\ sleeps' = PreSleep(j)
    /\ outcome' = [kind |-> "reuse", retry_after |-> NoRetryAfter]
    /\ rl_pc' = "raised"
    /\ rl_result' = IF LoggerMissing THEN "AttributeError" ELSE "RuntimeError"
    /\ all_transient' = FALSE
    /\ UNCHANGED <<backoff_times, rl_variant, rl_key, rl_reusable, attempt, awaits>>

\* `while attempt < max_retries` is false: the function falls off its end (None).
RL_LoopExit ==
    /\ UNCHANGED <<psVars, fnVars, fn2Vars, fn3Vars>>
    /\ rl_pc = "loop" /\ attempt >= max_retries
    /\ rl_pc' = "returned"
    /\ rl_result' = "None"
    /\ UNCHANGED <<backoff_times, rl_variant, rl_key, rl_reusable, attempt, awaits,
                   sleeps, outcome, all_transient>>

\* The caller takes the result or the exception.
RL_Finish ==
    /\ UNCHANGED <<psVars, fnVars, fn2Vars, fn3Vars>>
    /\ rl_pc \in {"returned", "raised"}
    /\ rl_pc' = "idle"
    /\ UNCHANGED <<backoff_times, rl_variant, rl_key, rl_reusable, attempt, awaits,
                   sleeps, outcome, all_transient, rl_result>>

RL_Init ==
    /\ backoff_times = [k \in Keys |-> 0]
    /\ rl_variant \in Variants
    /\ rl_pc = "idle"
    /\ rl_key = "channel_1"
    /\ rl_reusable = FALSE
    /\ attempt = 0
    /\ awaits = 0
    /\ sleeps = <<>>
    /\ outcome = NoOutcome
    /\ all_transient = TRUE
    /\ rl_result = "pending"

RL_Next ==
    \/ \E k \in Keys, r \in BOOLEAN : RL_Call(k, r)
    \/ \E j \in JitterTenths : RL_Success(j)
    \/ \E j \in JitterTenths, ra \in RetryAfters : RL_RetryAfter(j, ra)
    \/ \E j \in JitterTenths, ra \in RetryAfters : RL_RateLimitBackoff(j, ra)
    \/ \E j \in JitterTenths : RL_HttpError(j)
    \/ \E j \in JitterTenths : RL_Unexpected(j)
    \/ \E j \in JitterTenths : RL_ReuseError(j)
    \/ RL_LoopExit
    \/ RL_Finish


(***************************************************************************)
(* The summary pipeline (src/main.py): AttachmentHandler's cache,          *)
(* process_topic, process_unused_attachments and post_summary.             *)
(***************************************************************************)
\* Bounds of the inputs: topics of one summary, failed sends per handler call.
MaxTopics == 2
MaxFailures == 1

\* `chunk_files[:10]`, `max_attachments` (10 by default, 3 for the source thread),
\* `cache_data['reaction_count'] >= 3`
TopN == 10
DefaultMaxAttachments == 10
SourceMaxAttachments == 3
MinReactions == 3

None == "None"

\* channel_id of the monitored channel, self.summary_channel_id
SRC == "c1"
SUMCH == "c9"

\* The thread persisted by an earlier run, the thread post_summary creates on its
\* initial message, and the thread it creates in the source channel.
T_OLD == "t_old"
T_MAIN == "t_main"
T_NEW == "t_new"
Threads == {T_OLD, T_MAIN, T_NEW}

MsgIds == {"m1", "m2"}
ReactionCounts == {2, 3, 5}

\* f"{message.channel.id}:{message.id}" and cache_key.split(":", 1)
CacheKey(c, m) == <<c, m>>
ChannelPart(k) == k[1]
MessagePart(k) == k[2]

\* Python values that meet in used_message_ids: the regex of process_topic has two
\* groups, so re.findall yields (channel_id, message_id) tuples; message_part is a str.
PyStr(s) == [tag |-> "str", val |-> <<s>>]
PyTuple(t) == [tag |-> "tuple", val |-> t]

Take(s, n) == SubSeq(s, 1, Min(n, Len(s)))

\* The permutations of a finite set: the iteration orders of a Python set.
Perms(S) ==
    {s \in [1..Cardinality(S) -> S] : \A i, j \in 1..Cardinality(S) : s[i] = s[j] => i = j}

\* sorted(..., key=reaction_count, reverse=True) and list.sort(key=..., reverse=True):
\* stable, descending.
RECURSIVE InsertDesc(_, _)
InsertDesc(x, s) ==
    IF s = <<>> THEN <<x>>
    ELSE IF Head(s).rc >= x.rc THEN <<Head(s)>> \o InsertDesc(x, Tail(s))
    ELSE <<x>> \o s

RECURSIVE SortDesc(_)
SortDesc(s) ==
    IF s = <<>> THEN <<>>
    ELSE InsertDesc(s[Len(s)], SortDesc(SubSeq(s, 1, Len(s) - 1)))

\* `cache_key in self.attachment_handler.attachment_cache`
HasKey(k) == \E i \in DOMAIN attachment_cache : attachment_cache[i].key = k

BucketOf(k) == attachment_cache[CHOOSE i \in DOMAIN attachment_cache : attachment_cache[i].key = k]

\* AttachmentHandler.get_all_files_sorted
RECURSIVE AllAttachments(_)
AllAttachments(c) ==
    IF c = <<>> THEN <<>>
    ELSE [i \in DOMAIN Head(c).attachments |->
             [file |-> Head(c).attachments[i].filename,
              rc |-> Head(c).attachments[i].reaction_count,
              msg |-> MessagePart(Head(c).key)]] \o AllAttachments(Tail(c))

\* the records in bucket order, not sorted
get_all_files_unsorted == AllAttachments(attachment_cache)

get_all_files_sorted == SortDesc(AllAttachments(attachment_cache))

\* process_topic: the files of one referenced message (bucket-level reaction_count)
FilesOfLink(link) ==
    IF HasKey(CacheKey(link[1], link[2]))
    THEN LET b == BucketOf(CacheKey(link[1], link[2]))
         IN [i \in DOMAIN b.attachments |->
                [file |-> b.attachments[i].filename, rc |-> b.reaction_count, msg |-> link[2]]]
    ELSE <<>>

\* process_topic: `for channel_id, message_id in chunk_message_ids`, in the set's order
RECURSIVE PreparedFiles(_)
PreparedFiles(order) ==
    IF order = <<>> THEN <<>>
    ELSE FilesOfLink(Head(order)) \o PreparedFiles(Tail(order))

\* the first 10 prepared files, not sorted
ChunkFilesUnsorted(order) == Take(PreparedFiles(order), TopN)

\* process_topic: sort by reaction count, keep the top 10
ChunkFiles(order) == Take(SortDesc(PreparedFiles(order)), TopN)

\* process_topic: `return chunk_message_ids, used_files`
TopicUsedIds(links) == {PyTuple(l) : l \in links}

\* The sets of failing sends among n sends, within the failures left to this run
FailChoices(n) == {F \in SUBSET (1..n) : failures + Cardinality(F) <= MaxFailures}

B(x) == IF x THEN 1 ELSE 0

Msg(dest, kind, file, m) == [dest |-> dest, kind |-> kind, file |-> file, msg |-> m]

\* The attachment messages of a topic that were sent (those outside F)
RECURSIVE AttachmentMsgs(_, _, _, _)
AttachmentMsgs(dest, files, F, i) ==
    IF i > Len(files) THEN <<>>
    ELSE (IF i \in F THEN <<>> ELSE <<Msg(dest, "attachment", files[i].file, files[i].msg)>>)
         \o AttachmentMsgs(dest, files, F, i + 1)

\* thread.history(): filenames attached to the messages of a thread
ThreadFiles(t) ==
    (IF t = T_OLD THEN prior ELSE {})
    \cup {sent[i].file : i \in {j \in DOMAIN sent : sent[j].dest = t /\ sent[j].file # None}}

\* the candidates of one bucket when the filename test is left out
BucketCandidatesAnyName(b, usedIds, usedNames) ==
    IF PyStr(MessagePart(b.key)) \notin usedIds /\ b.reaction_count >= MinReactions
    THEN [i \in DOMAIN b.attachments |->
             [file |-> b.attachments[i].filename,
              rc |-> b.attachments[i].reaction_count,
              msg |-> MessagePart(b.key)]]
    ELSE <<>>

\* the candidates of one bucket when a bucket must have more than 3 reactions
BucketCandidatesAboveThreshold(b, usedIds, usedNames) ==
    IF b.reaction_count > MinReactions
    THEN BucketCandidatesAnyName(
             [b EXCEPT !.attachments =
                 SelectSeq(b.attachments, LAMBDA a : a.filename \notin usedNames)],
             usedIds, usedNames)
    ELSE <<>>

\* process_unused_attachments: the candidates of one bucket
BucketCandidates(b, usedIds, usedNames) ==
    IF PyStr(MessagePart(b.key)) \notin usedIds /\ b.reaction_count >= MinReactions
    THEN LET keep == {i \in DOMAIN b.attachments : b.attachments[i].filename \notin usedNames}
             RECURSIVE Pick(_)
             Pick(i) ==
                 IF i > Len(b.attachments) THEN <<>>
                 ELSE (IF i \in keep
                       THEN <<[file |-> b.attachments[i].filename,
                               rc |-> b.attachments[i].reaction_count,
                               msg |-> MessagePart(b.key)]>>
                       ELSE <<>>) \o Pick(i + 1)
         IN Pick(1)
    ELSE <<>>

\* process_unused_attachments: `for cache_key, cache_data in ...attachment_cache.items()`
RECURSIVE Candidates(_, _, _)
Candidates(c, usedIds, usedNames) ==
    IF c = <<>> THEN <<>>
    ELSE BucketCandidates(Head(c), usedIds, usedNames) \o Candidates(Tail(c), usedIds, usedNames)

\* the header and the entries sent before the first failing send (f = 0: none fails)
RECURSIVE UnusedMsgs(_, _, _, _)
UnusedMsgs(dest, entries, f, i) ==
    IF i > Len(entries) \/ (f # 0 /\ i + 1 >= f) THEN <<>>
    ELSE <<Msg(dest, "unused", entries[i].file, entries[i].msg)>>
         \o UnusedMsgs(dest, entries, f, i + 1)

\* thread.parent.id
ParentOf(t) == IF t = T_MAIN THEN SUMCH ELSE SRC

\* fetch_channel(previous_thread_id) found no thread: the else branch clears the entry
\* of thread.parent.id
DbAfterMissingPrevious(d, t) == [d EXCEPT ![ParentOf(t)] = None]


\* post_summary, lines 1140-1167: "reuse" when the persisted thread is fetched and its
\* parent message exists; every other outcome drops it.
LookupOutcome(state, err) ==
    IF err THEN "error"
    ELSE IF state = "deleted" THEN "not_found"
    ELSE IF state = "orphan" THEN "orphaned"
    ELSE "reuse"

\* the db entry after a lookup that clears it in every branch
DbAfterLookupCleared(d, result) == [d EXCEPT ![SRC] = None]

\* post_summary, lines 1151-1167: the db entry after the lookup
DbAfterLookup(d, result) ==
    IF result = "reuse" THEN d ELSE [d EXCEPT ![SRC] = None]

----------------------------------------------------------------------------
\* post_summary, lines 1134-1167: look the persisted thread up
PS_Lookup ==
    /\ UNCHANGED <<rlVars, fnVars, fn2Vars, fn3Vars>>
    /\ pc = "lookup"
    /\ existing_thread_id' = db[SRC]
    /\ IF db[SRC] = None
       THEN /\ UNCHANGED <<db, source_thread, thread_existed, failures>>
            /\ pc' = "create"
       ELSE \E err \in BOOLEAN :
               LET result == LookupOutcome(old_thread, err) IN
               /\ failures + B(err) <= MaxFailures
               /\ failures' = failures + B(err)
               /\ db' = DbAfterLookup(db, result)
               /\ source_thread' = IF result = "reuse" THEN db[SRC] ELSE None
               /\ thread_existed' = (result = "reuse")
               /\ pc' = IF result = "reuse" THEN "initial" ELSE "create"
    /\ UNCHANGED <<old_thread, prior, attachment_cache, topics, ti, thread,
                   used_message_ids, used_files, used_filenames, unused_attachments,
                   created, sent>>

\* post_summary, lines 1169-1190: announce, pin and create a new source thread
PS_CreateThread ==
    /\ UNCHANGED <<rlVars, fnVars, fn2Vars, fn3Vars>>
    /\ pc = "create"
    /\ sent' = sent \o <<Msg(SRC, "thread_message", None, None)>>
    /\ created' = created \cup {<<T_NEW, SRC>>}
    /\ source_thread' = T_NEW
    /\ db' = [db EXCEPT ![SRC] = T_NEW]
    /\ pc' = "initial"
    /\ UNCHANGED <<old_thread, prior, attachment_cache, topics, ti, existing_thread_id,
                   thread_existed, thread, used_message_ids, used_files, used_filenames,
                   unused_attachments, failures>>

\* post_summary, lines 1171-1186: pins(), send() or create_thread() raises
PS_CreateThreadFails ==
    /\ UNCHANGED <<rlVars, fnVars, fn2Vars, fn3Vars>>
    /\ pc = "create"
    /\ failures < MaxFailures
    /\ failures' = failures + 1
    /\ pc' = "failed"
    /\ UNCHANGED <<db, old_thread, prior, attachment_cache, topics, ti, existing_thread_id,
                   source_thread, thread_existed, thread, used_message_ids, used_files,
                   used_filenames, unused_attachments, created, sent>>

\* post_summary, lines 1192-1229: the initial message with the top attachment, the
\* main thread and its headline. failAt names the call that raises.
PS_Initial(failAt) ==
    /\ UNCHANGED <<rlVars, fnVars, fn2Vars, fn3Vars>>
    /\ pc = "initial"
    /\ failures + B(failAt # "none") <= MaxFailures
    /\ failures' = failures + B(failAt # "none")
    /\ LET all_files == get_all_files_sorted
           initial_file == IF all_files = <<>> THEN None ELSE all_files[1].file
           m1 == <<Msg(SUMCH, "initial", initial_file, None)>>
           m2 == <<Msg(T_MAIN, "header", None, None)>>
       IN /\ sent' = sent \o (IF failAt = "initial" THEN <<>>
                              ELSE IF failAt \in {"thread", "header"} THEN m1
                              ELSE m1 \o m2)
          /\ used_files' = IF failAt = "initial" \/ initial_file = None THEN {}
                           ELSE {initial_file}
          /\ created' = IF failAt \in {"initial", "thread"} THEN created
                        ELSE created \cup {<<T_MAIN, SUMCH>>}
          /\ thread' = IF failAt \in {"initial", "thread"} THEN None ELSE T_MAIN
    /\ used_message_ids' = {}
    /\ ti' = 1
    /\ pc' = IF failAt = "none" THEN "main_topics" ELSE "failed"
    /\ UNCHANGED <<db, old_thread, prior, attachment_cache, topics, existing_thread_id,
                   source_thread, thread_existed, used_filenames, unused_attachments>>

\* the name under which the text of the i-th topic is recorded in sent
TopicId(i) == <<"t1", "t2", "t3", "t4">>[i]

\* the messages of a topic when its text is sent after its attachments
TopicMsgsTextLast(dest, i, files, F) ==
    AttachmentMsgs(dest, files, F, 1) \o <<Msg(dest, "topic", None, TopicId(i))>>
\* lines 976-992: the topic's text, then each of its attachments in a send of its own
TopicMsgs(dest, i, files, F) ==
    <<Msg(dest, "topic", None, TopicId(i))>> \o AttachmentMsgs(dest, files, F, 1)

\* process_topic(dest, topics[ti]) and the caller's bookkeeping (lines 932-999 and
\* 1231-1234 / 1261-1264). order is the iteration order of the set of links, textFails
\* the failure of the topic text's send, F the attachment sends that fail.
ProcessTopic(dest, order, textFails, F) ==
    LET links == topics[ti]
        chunk_files == ChunkFiles(order)
    IN /\ F \subseteq 1..Len(chunk_files)
       /\ failures + B(textFails) + Cardinality(F) <= MaxFailures
       /\ failures' = failures + B(textFails) + Cardinality(F)
       /\ IF textFails
          THEN /\ F = {}
               /\ UNCHANGED <<sent, used_message_ids, used_files>>
          ELSE /\ sent' = sent \o TopicMsgs(dest, ti, chunk_files, F)
               /\ used_message_ids' = used_message_ids \cup TopicUsedIds(links)
               /\ used_files' = used_files \cup
                      {PreparedFiles(order)[i].file : i \in DOMAIN PreparedFiles(order)}
       /\ ti' = ti + 1

\* process_unused_attachments(dest, used_message_ids, max_attachments,
\* previous_thread_id, files) (lines 1001-1120). histFails: thread.history() raises;
\* f: the first failing send of the section (1 the header, 0 none); prevErr: the fetch
\* of the previous thread raises something other than NotFound; footerFails.
ProcessUnused(dest, maxAtt, files, histFails, f, prevErr, footerFails) ==
    LET names == files \cup (IF histFails THEN {} ELSE ThreadFiles(dest))
        found == SortDesc(Candidates(attachment_cache, used_message_ids, names))
        entries == Take(found, maxAtt)
        section == IF found = <<>> \/ f = 1 THEN <<>>
                   ELSE <<Msg(dest, "unused_header", None, None)>>
                        \o UnusedMsgs(dest, entries, f, 1)
        raised == found # <<>> /\ f # 0
        previous_missing == /\ existing_thread_id # None
                            /\ existing_thread_id # dest
                            /\ ~prevErr
                            /\ old_thread = "deleted"
        cost == B(histFails) + B(f # 0) + B(prevErr) + B(footerFails)
    IN /\ f \in 0..(IF found = <<>> THEN 0 ELSE Len(entries) + 1)
       /\ prevErr => (existing_thread_id # None /\ existing_thread_id # dest)
       /\ failures + cost <= MaxFailures
       /\ failures' = failures + cost
       /\ used_filenames' = [used_filenames EXCEPT ![dest] = names]
       /\ unused_attachments' = [unused_attachments EXCEPT ![dest] = found]
       /\ IF raised
          THEN /\ ~footerFails /\ ~prevErr
               /\ sent' = sent \o section
               /\ UNCHANGED db
          ELSE /\ db' = IF previous_missing THEN DbAfterMissingPrevious(db, dest) ELSE db
               /\ sent' = sent \o section
                              \o (IF footerFails THEN <<>>
                                  ELSE <<Msg(dest, "footer", None, None)>>)
       /\ pc' = IF raised THEN "failed"
                ELSE IF dest = T_MAIN THEN "src_header" ELSE "notify"

PS_MainTopic ==
    /\ UNCHANGED <<rlVars, fnVars, fn2Vars, fn3Vars>>
    /\ pc = "main_topics" /\ ti <= Len(topics)
    /\ \E order \in Perms(topics[ti]), textFails \in BOOLEAN, F \in FailChoices(TopN) :
          ProcessTopic(thread, order, textFails, F)
    /\ UNCHANGED <<db, old_thread, prior, attachment_cache, topics, pc, existing_thread_id,
                   source_thread, thread_existed, thread, used_filenames,
                   unused_attachments, created>>

PS_MainUnused ==
    /\ UNCHANGED <<rlVars, fnVars, fn2Vars, fn3Vars>>
    /\ pc = "main_topics" /\ ti > Len(topics)
    /\ \E histFails \in BOOLEAN, f \in 0..(DefaultMaxAttachments + 1),
          prevErr \in BOOLEAN, footerFails \in BOOLEAN :
          ProcessUnused(thread, DefaultMaxAttachments, used_files, histFails, f, prevErr,
                        footerFails)
    /\ UNCHANGED <<old_thread, prior, attachment_cache, topics, ti, existing_thread_id,
                   source_thread, thread_existed, thread, used_message_ids, used_files,
                   created>>

\* post_summary, line 1258: the header of the source thread
PS_SrcHeader(fails) ==
    /\ UNCHANGED <<rlVars, fnVars, fn2Vars, fn3Vars>>
    /\ pc = "src_header"
    /\ failures + B(fails) <= MaxFailures
    /\ failures' = failures + B(fails)
    /\ sent' = IF fails THEN sent ELSE sent \o <<Msg(source_thread, "header", None, None)>>
    /\ pc' = IF fails THEN "failed" ELSE "src_topics"
    /\ ti' = 1
    /\ UNCHANGED <<db, old_thread, prior, attachment_cache, topics, existing_thread_id,
                   source_thread, thread_existed, thread, used_message_ids, used_files,
                   used_filenames, unused_attachments, created>>

PS_SrcTopic ==
    /\ UNCHANGED <<rlVars, fnVars, fn2Vars, fn3Vars>>
    /\ pc = "src_topics" /\ ti <= Len(topics)
    /\ \E order \in Perms(topics[ti]), textFails \in BOOLEAN, F \in FailChoices(TopN) :
          ProcessTopic(source_thread, order, textFails, F)
    /\ UNCHANGED <<db, old_thread, prior, attachment_cache, topics, pc, existing_thread_id,
                   source_thread, thread_existed, thread, used_filenames,
                   unused_attachments, created>>

\* post_summary, line 1267: no used_files are handed over, max_attachments = 3
PS_SrcUnused ==
    /\ UNCHANGED <<rlVars, fnVars, fn2Vars, fn3Vars>>
    /\ pc = "src_topics" /\ ti > Len(topics)
    /\ \E histFails \in BOOLEAN, f \in 0..(SourceMaxAttachments + 1),
          prevErr \in BOOLEAN, footerFails \in BOOLEAN :
          ProcessUnused(source_thread, SourceMaxAttachments, {}, histFails, f, prevErr,
                        footerFails)
    /\ UNCHANGED <<old_thread, prior, attachment_cache, topics, ti, existing_thread_id,
                   source_thread, thread_existed, thread, used_message_ids, used_files,
                   created>>

\* post_summary, lines 1269-1275: notify the channel when the thread was reused
PS_Notify(fails) ==
    /\ UNCHANGED <<rlVars, fnVars, fn2Vars, fn3Vars>>
    /\ pc = "notify"
    /\ IF thread_existed
       THEN /\ failures + B(fails) <= MaxFailures
            /\ failures' = failures + B(fails)
            /\ sent' = IF fails THEN sent ELSE sent \o <<Msg(SRC, "notify", None, None)>>
            /\ pc' = IF fails THEN "failed" ELSE "done"
       ELSE /\ ~fails
            /\ pc' = "done"
            /\ UNCHANGED <<sent, failures>>
    /\ UNCHANGED <<db, old_thread, prior, attachment_cache, topics, ti, existing_thread_id,
                   source_thread, thread_existed, thread, used_message_ids, used_files,
                   used_filenames, unused_attachments, created>>

----------------------------------------------------------------------------
\* The caches one scan of the source channel leaves: buckets with distinct keys, every
\* attachment carrying its message's reaction count. Message m1 carries two files,
\* message m2 one file with the name of m1's first.
MessageFiles(m) == IF m = "m1" THEN <<"a.png", "b.png">> ELSE <<"a.png">>

Buckets(m) ==
    {[key |-> CacheKey(SRC, m), reaction_count |-> r,
      attachments |-> [i \in DOMAIN MessageFiles(m) |->
                          [filename |-> MessageFiles(m)[i], reaction_count |-> r]]] :
        r \in ReactionCounts}

\* channel.history(after=...) runs oldest first: m1's bucket is inserted before m2's.
Caches ==
    {<<>>}
    \cup {<<b>> : b \in UNION {Buckets(m) : m \in MsgIds}}
    \cup {<<b1, b2>> : b1 \in Buckets("m1"), b2 \in Buckets("m2")}

\* The links a topic's text may hold
Links == {<<SRC, m>> : m \in MsgIds}

Summaries == UNION {[1..n -> SUBSET Links] : n \in 1..MaxTopics}

PS_Init ==
    /\ db \in {[c \in {SRC, SUMCH} |-> IF c = SRC THEN t ELSE None] : t \in {None, T_OLD}}
    /\ old_thread \in (IF db[SRC] = None THEN {"deleted"} ELSE {"ok", "orphan", "deleted"})
    /\ prior = (IF old_thread = "ok" THEN {"a.png"} ELSE {})
    /\ attachment_cache \in Caches
    /\ topics \in Summaries
    /\ pc = "lookup"
    /\ ti = 1
    /\ existing_thread_id = None
    /\ source_thread = None
    /\ thread_existed = FALSE
    /\ thread = None
    /\ used_message_ids = {}
    /\ used_files = {}
    /\ used_filenames = [t \in Threads |-> {}]
    /\ unused_attachments = [t \in Threads |-> <<>>]
    /\ created = {}
    /\ sent = <<>>
    /\ failures = 0

PS_Next ==
    \/ PS_Lookup
    \/ PS_CreateThread
    \/ PS_CreateThreadFails
    \/ \E failAt \in {"none", "initial", "thread", "header"} : PS_Initial(failAt)
    \/ PS_MainTopic
    \/ PS_MainUnused
    \/ \E fails \in BOOLEAN : PS_SrcHeader(fails)
    \/ PS_SrcTopic
    \/ PS_SrcUnused
    \/ \E fails \in BOOLEAN : PS_Notify(fails)

(***************************************************************************)
(* MessageFormatter.chunk_content (src/main.py:339-369; the copies of      *)
(* src/summary.py:200-230 and summariser.py:218-248 have the same body).   *)
(* A text is a sequence of characters; a character is an ordinary one, a   *)
(* topic-marker emoji, a newline, a dash, or a whole message link.         *)
(***************************************************************************)
\* Bounds of the inputs: characters of a text, characters of one message link
MaxContentLen == 5
LinkLen == 3

\* `max_length: int = 1900`
DefaultMaxLength == 1900

\* The max_length values tried: two small ceilings and the default
MaxLengths == {4, 9, DefaultMaxLength}

Newline == "\n"
Emoji == "E"
LinkChars == {"L1", "L2"}
InputChars == {"x", Emoji, Newline} \cup LinkChars

\* The message id captured by the regex in a link
LinkId(ch) == IF ch = "L1" THEN "m1" ELSE "m2"

\* len(): a link counts its characters
RECURSIVE StrLen(_)
StrLen(s) ==
    IF s = <<>> THEN 0
    ELSE (IF Head(s) \in LinkChars THEN LinkLen ELSE 1) + StrLen(Tail(s))

\* content.split('\n')
RECURSIVE SplitLines(_)
SplitLines(s) ==
    IF \A i \in DOMAIN s : s[i] # Newline THEN <<s>>
    ELSE LET n == CHOOSE i \in DOMAIN s :
                     s[i] = Newline /\ \A j \in 1..(i - 1) : s[j] # Newline
         IN <<SubSeq(s, 1, n - 1)>> \o SplitLines(SubSeq(s, n + 1, Len(s)))

\* set(re.findall(r'https://discord\.com/channels/\d+/\d+/(\d+)', line))
MessageLinksOf(line) == {LinkId(line[i]) : i \in {j \in DOMAIN line : line[j] \in LinkChars}}

\* any(line.startswith(emoji) for emoji in [...])
StartsWithEmoji(line) == line # <<>> /\ line[1] = Emoji

\* '\n---\n\n'
Separator == <<Newline, "-", "-", "-", Newline, Newline>>

\* a line appended without its text
AppendLineDropped(cur, line) == cur \o <<Newline>>

\* `current_chunk += line + '\n'` and `current_chunk = line + '\n'`
AppendLine(cur, line) == cur \o line \o <<Newline>>

\* a new chunk that keeps the links of the chunk before it
NewChunkLinksKept(old, links) == old \cup links

\* `current_chunk_links = set(message_links)`
NewChunkLinks(old, links) == links

\* chunks.append((current_chunk, current_chunk_links))
ChunksAppend(chunks, st) == Append(chunks, [text |-> st.cur, links |-> st.links])

\* The emoji test of one loop iteration (lines 349-355)
EmojiBreak(st, line) ==
    IF StartsWithEmoji(line) /\ st.cur # <<>>
    THEN [chunks |-> ChunksAppend(st.chunks, st), cur |-> Separator, links |-> {}]
    ELSE st

\* The length test of one loop iteration (lines 357-364)
PlaceLine(st, line, max) ==
    IF StrLen(st.cur) + StrLen(line) + 2 <= max
    THEN [chunks |-> st.chunks, cur |-> AppendLine(st.cur, line),
          links |-> st.links \cup MessageLinksOf(line)]
    ELSE [chunks |-> IF st.cur # <<>> THEN ChunksAppend(st.chunks, st) ELSE st.chunks,
          cur |-> AppendLine(<<>>, line),
          links |-> NewChunkLinks(st.links, MessageLinksOf(line))]

\* `for line in content.split('\n')`
RECURSIVE ChunkLoop(_, _, _, _)
ChunkLoop(st, lines, idx, max) ==
    IF idx > Len(lines) THEN st
    ELSE ChunkLoop(PlaceLine(EmojiBreak(st, lines[idx]), lines[idx], max),
                   lines, idx + 1, max)

chunk_content(content, max) ==
    LET st == ChunkLoop([chunks |-> <<>>, cur |-> <<>>, links |-> {}],
                        SplitLines(content), 1, max)
    IN IF st.cur # <<>> THEN ChunksAppend(st.chunks, st) ELSE st.chunks

\* The texts of at most n characters
RECURSIVE Texts(_)
Texts(n) ==
    IF n = 0 THEN {<<>>}
    ELSE Texts(n - 1) \cup {Append(t, ch) : t \in {u \in Texts(n - 1) : Len(u) = n - 1},
                                             ch \in InputChars}

CC_Call ==
    /\ cc_pc = "call"
    /\ cc_chunks' = chunk_content(cc_content, cc_max)
    /\ cc_pc' = "done"
    /\ UNCHANGED <<cc_content, cc_max>>
    /\ UNCHANGED <<fn2Vars, fn3Vars, rlVars, psVars, paVars, gsVars, tpVars>>

CC_Idle ==
    /\ cc_content = <<>>
    /\ cc_max = DefaultMaxLength
    /\ cc_pc = "call"
    /\ cc_chunks = <<>>

CC_Init ==
    /\ cc_content \in Texts(MaxContentLen)
    /\ cc_max \in MaxLengths
    /\ cc_pc = "call"
    /\ cc_chunks = <<>>

vars == <<rlVars, psVars, fnVars, fn2Vars, fn3Vars>>

\* The pipeline: one post_summary run; the rate limiter stays idle.
(***************************************************************************)
(* AttachmentHandler.process_attachment and get_all_files_sorted           *)
(* (src/main.py:226-316), called in any order.                             *)
(***************************************************************************)
\* Bound: process_attachment calls made on one handler
MaxCalls == 4

\* `max_size: int = 25 * 1024 * 1024`
max_size == 26214400

MiB == 1048576

\* len(file_data) of a download: 10 MiB, the limit, one byte more, 30 MiB
Sizes == {10 * MiB, max_size, max_size + 1, 30 * MiB}

\* What session.get / response.read produce: a body with status 200, a non-success
\* status, or an exception (timeout, connection error)
Downloads ==
    {[status |-> 200, size |-> sz, error |-> FALSE] : sz \in Sizes}
    \cup {[status |-> 404, size |-> 0, error |-> FALSE],
          [status |-> 0, size |-> 0, error |-> TRUE]}

\* sum(reaction.count ...) of the message at the time of a call
CallReactions == {3, 5}

\* Before the first call
NoCall == [key |-> CacheKey(None, None), filename |-> None,
           dl |-> [status |-> 0, size |-> 0, error |-> FALSE], result |-> None]

\* a size test that also rejects a payload of exactly max_size
TooLargeInclusive(size) == size >= max_size

\* `len(file_data) > self.max_size`
TooLarge(size) == size > max_size

\* a non-success status that leaves the function as an exception
ProcessOutcomeUncaught(dl) ==
    IF dl.error THEN "none"
    ELSE IF dl.status # 200 THEN "raised"
    ELSE IF TooLarge(dl.size) THEN "none"
    ELSE "stored"

\* How one call ends: "stored" (the Attachment is cached and returned), "none" (None
\* is returned) or "raised". `raise APIError` at line 245 is inside the try whose
\* `except Exception` returns None, as is every failure of the download.
ProcessOutcome(dl) ==
    IF dl.error THEN "none"
    ELSE IF dl.status # 200 THEN "none"
    ELSE IF TooLarge(dl.size) THEN "none"
    ELSE "stored"

\* What the handler logs for a call that returns None
LogReason(dl) ==
    IF dl.error THEN "error" ELSE IF dl.status # 200 THEN "status" ELSE "too_large"

\* lines 261-268: create the bucket on the first record of a message, then append
CacheInsert(cache, key, f, rc) ==
    IF \E i \in DOMAIN cache : cache[i].key = key
    THEN LET i == CHOOSE j \in DOMAIN cache : cache[j].key = key
         IN [cache EXCEPT ![i].attachments =
                Append(@, [filename |-> f, reaction_count |-> rc])]
    ELSE Append(cache, [key |-> key, reaction_count |-> rc,
                        attachments |-> <<[filename |-> f, reaction_count |-> rc]>>])

\* a clear that leaves the cache as it is
ClearedCacheKept(cache) == cache

\* clear_cache: self.attachment_cache.clear()
ClearedCache(cache) == <<>>

\* One call process_attachment(attachment f, message m of channel c with rc reactions)
process_attachment(c, m, f, rc, dl) ==
    LET out == ProcessOutcome(dl)
        key == CacheKey(c, m)
    IN /\ attachment_cache' =
              (IF out = "stored" THEN CacheInsert(attachment_cache, key, f, rc)
               ELSE attachment_cache)
       /\ inserted' =
              (IF out = "stored" THEN Append(inserted, [file |-> f, rc |-> rc, msg |-> m])
               ELSE inserted)
       /\ pa_call' = [key |-> key, filename |-> f, dl |-> dl, result |-> out]
       /\ pa_calls' = pa_calls + 1
       /\ pa_log' = (IF out = "none" THEN pa_log \cup {<<key, f, LogReason(dl)>>}
                     ELSE pa_log)

PA_Process(m, f, rc, dl) ==
    /\ pa_calls < MaxCalls
    /\ process_attachment(SRC, m, f, rc, dl)
    /\ UNCHANGED <<fn2Vars, fn3Vars, rlVars, psRest, ccVars, tpVars, gsVars>>

PA_Clear ==
    /\ attachment_cache # <<>>
    /\ attachment_cache' = ClearedCache(attachment_cache)
    /\ inserted' = (IF attachment_cache' = <<>> THEN <<>> ELSE inserted)
    /\ UNCHANGED <<pa_call, pa_calls, pa_log>>
    /\ UNCHANGED <<fn2Vars, fn3Vars, rlVars, psRest, ccVars, tpVars, gsVars>>

PA_Idle ==
    /\ pa_call = NoCall
    /\ pa_calls = 0
    /\ pa_log = {}
    /\ inserted = <<>>

(***************************************************************************)
(* ChannelSummarizer.generate_summary, the loop over channels_to_process   *)
(* (src/main.py:1347-1412), with get_channel_history (src/main.py:516-627).*)
(***************************************************************************)
\* Bound: channels in channels_to_process
MaxChannels == 2

\* `if len(messages) >= 10`
MinMessages == 10

\* A second monitored channel and the TEST_DATA_CHANNEL of dev mode
CH2 == "c2"
TESTCH == "c7"
ScanChannels == {SRC, CH2}

ChannelLists == UNION {[1..n -> ScanChannels] : n \in 1..MaxChannels}

\* channel.history(after=yesterday, limit=None): the messages that decide the cache,
\* oldest first
History(c) ==
    IF c = SRC THEN <<"m1", "m2">>
    ELSE IF c = CH2 THEN <<"m3", "m4">>
    ELSE <<"m5">>

\* message.attachments: m4 has none, the attachment of m3 is a video
ScanFiles(m) ==
    IF m = "m4" THEN <<>>
    ELSE IF m = "m3" THEN <<"v.mp4">>
    ELSE MessageFiles(m)

\* line 1638: `attachment.filename.lower().endswith(ext)` for a video extension
IsVideo(f) == f = "v.mp4"

\* sum(reaction.count for reaction in message.reactions)
HistoryReactions(m) == IF m = "m1" THEN 5 ELSE 3

\* The channel whose history get_channel_history reads: the test data channel in dev
\* mode (lines 518-549), the channel asked for otherwise (line 588)
ScannedChannel == IF dev_mode THEN TESTCH ELSE channels_to_process[gs_ci]

\* The iteration that added each bucket, after a step from cache to cache'
IterAfter(old, new, iters, ci) ==
    IF new = <<>> THEN <<>>
    ELSE IF Len(new) > Len(old) THEN Append(iters, ci)
    ELSE iters

\* `continue`, or the end of a loop iteration: on to the next channel
NextIteration ==
    /\ gs_ci' = gs_ci + 1
    /\ gs_pc' = "next"
    /\ gs_mi' = 1
    /\ gs_ai' = 1
    /\ messages' = 0

\* get_channel_history gives up: dev mode logs and returns [] (lines 582-585), the
\* production path re-raises (lines 624-627) and generate_summary's `except Exception`
\* (lines 1408-1411) goes on with the next channel
ScanAborted ==
    IF dev_mode
    THEN /\ gs_pc' = "summarise"
         /\ messages' = 0
         /\ UNCHANGED <<gs_ci, gs_mi, gs_ai>>
    ELSE NextIteration

\* lines 1312-1343: every item is looked up and `channel.name.lower()` is read; the
\* channels here are text channels without "support" in their names, so each item found
\* is appended. The result is the list, or "raised" when an item is not found: the
\* lookup gives None and reading its name raises AttributeError.
BuiltList(items, reach) ==
    IF \A i \in DOMAIN items : items[i] \in reach THEN items ELSE <<"raised">>

\* lines 1299-1345: build channels_to_process. An error here is outside the loop's
\* try: the outer handler (lines 1439-1442) logs it and re-raises.
GS_BuildList ==
    /\ gs_pc = "build"
    /\ LET built == BuiltList(channels_to_monitor, gs_reach)
       IN IF built = <<"raised">>
          THEN /\ gs_pc' = "aborted"
               /\ UNCHANGED channels_to_process
          ELSE /\ gs_pc' = "next"
               /\ channels_to_process' = built
    /\ UNCHANGED <<dev_mode, channels_to_monitor, gs_reach, gs_ci, gs_mi, gs_ai, messages,
                   cache_iter, active_channels, gs_videos, top_candidates>>
    /\ UNCHANGED <<fn2Vars, fn3Vars, rlVars, psVars, ccVars, tpVars, paVars>>

\* lines 1349-1358: clear the cache, look the channel up, start the scan
GS_StartChannel(found) ==
    /\ gs_pc = "next"
    /\ gs_ci <= Len(channels_to_process)
    /\ attachment_cache' = ClearedCache(attachment_cache)
    /\ cache_iter' = IterAfter(attachment_cache, attachment_cache', cache_iter, gs_ci)
    /\ inserted' = (IF attachment_cache' = <<>> THEN <<>> ELSE inserted)
    /\ IF found
       THEN /\ gs_pc' = "scan"
            /\ gs_mi' = 1
            /\ gs_ai' = 1
            /\ messages' = 0
            /\ UNCHANGED gs_ci
       ELSE NextIteration
    /\ UNCHANGED <<dev_mode, channels_to_monitor, gs_reach, channels_to_process,
                   pa_call, pa_calls, pa_log>>
    /\ UNCHANGED <<active_channels, gs_videos, top_candidates>>
    /\ UNCHANGED <<fn2Vars, fn3Vars, rlVars, psRest, ccVars, tpVars>>

\* lines 554-560 and 599-604: one process_attachment call of the scan
GS_ProcessAttachment(dl) ==
    /\ gs_pc = "scan"
    /\ gs_mi <= Len(History(ScannedChannel))
    /\ LET m == History(ScannedChannel)[gs_mi]
       IN /\ gs_ai <= Len(ScanFiles(m))
          /\ process_attachment(ScannedChannel, m, ScanFiles(m)[gs_ai], HistoryReactions(m), dl)
    /\ cache_iter' = IterAfter(attachment_cache, attachment_cache', cache_iter, gs_ci)
    /\ IF pa_call'.result = "raised"
       THEN ScanAborted
       ELSE /\ gs_ai' = gs_ai + 1
            /\ UNCHANGED <<gs_pc, gs_ci, gs_mi, messages>>
    /\ gs_videos' = IF pa_call'.result = "stored" /\ IsVideo(pa_call'.filename)
                    THEN gs_videos \cup {pa_call'.key}
                    ELSE gs_videos
    /\ UNCHANGED <<dev_mode, channels_to_monitor, gs_reach, channels_to_process>>
    /\ UNCHANGED <<active_channels, top_candidates>>
    /\ UNCHANGED <<fn2Vars, fn3Vars, rlVars, psRest, ccVars, tpVars>>

\* lines 562-576 and 606-620: messages.append(...) once the attachments are done
GS_Message ==
    /\ gs_pc = "scan"
    /\ gs_mi <= Len(History(ScannedChannel))
    /\ gs_ai > Len(ScanFiles(History(ScannedChannel)[gs_mi]))
    /\ messages' = messages + 1
    /\ gs_mi' = gs_mi + 1
    /\ gs_ai' = 1
    /\ UNCHANGED <<dev_mode, channels_to_monitor, gs_reach, channels_to_process,
                   gs_pc, gs_ci, cache_iter>>
    /\ UNCHANGED <<active_channels, gs_videos, top_candidates>>
    /\ UNCHANGED <<fn2Vars, fn3Vars, rlVars, psVars, ccVars, tpVars, paVars>>

\* `return messages`; extra counts further messages of the history, all without
\* attachments, which add to len(messages) and leave the cache alone
GS_HistoryDone(extra) ==
    /\ gs_pc = "scan"
    /\ gs_mi > Len(History(ScannedChannel))
    /\ messages' = messages + extra
    /\ gs_pc' = "summarise"
    /\ UNCHANGED <<dev_mode, channels_to_monitor, gs_reach, channels_to_process,
                   gs_ci, gs_mi, gs_ai, cache_iter>>
    /\ UNCHANGED <<active_channels, gs_videos, top_candidates>>
    /\ UNCHANGED <<fn2Vars, fn3Vars, rlVars, psVars, ccVars, tpVars, paVars>>

\* the channel lookup or channel.history raises inside get_channel_history
GS_HistoryFails ==
    /\ gs_pc = "scan"
    /\ ScanAborted
    /\ UNCHANGED <<dev_mode, channels_to_monitor, gs_reach, channels_to_process,
                   cache_iter>>
    /\ UNCHANGED <<active_channels, gs_videos, top_candidates>>
    /\ UNCHANGED <<fn2Vars, fn3Vars, rlVars, psVars, ccVars, tpVars, paVars>>

\* lines 1364-1406: too few messages, a gens channel, nothing of note or an exception
\* end the iteration; otherwise active_channels is set, the summary is stored and
\* post_summary is called (a failure after line 1376 is counted with post_summary's)
GS_Summarise(kind) ==
    /\ gs_pc = "summarise"
    /\ IF messages < MinMessages \/ kind # "post"
       THEN NextIteration
       ELSE /\ gs_pc' = "post"
            /\ UNCHANGED <<gs_ci, gs_mi, gs_ai, messages>>
    /\ active_channels' = (active_channels \/ (messages >= MinMessages /\ kind = "post"))
    /\ UNCHANGED <<dev_mode, channels_to_monitor, gs_reach, channels_to_process,
                   cache_iter>>
    /\ UNCHANGED <<gs_videos, top_candidates>>
    /\ UNCHANGED <<fn2Vars, fn3Vars, rlVars, psVars, ccVars, tpVars, paVars>>

\* lines 1396-1402: post_summary returns or raises, the iteration ends
GS_PostSummary ==
    /\ gs_pc = "post"
    /\ NextIteration
    /\ UNCHANGED <<dev_mode, channels_to_monitor, gs_reach, channels_to_process,
                   cache_iter>>
    /\ UNCHANGED <<active_channels, gs_videos, top_candidates>>
    /\ UNCHANGED <<fn2Vars, fn3Vars, rlVars, psVars, ccVars, tpVars, paVars>>

\* create_top_generations_thread, lines 1615-1640: the cache keys whose videos are
\* collected for the ranking. Every channel of the model is a text channel of the guild
\* without "support" in its name, or the test data channel in dev mode.
VideoKeys(cache) ==
    {cache[i].key : i \in {j \in DOMAIN cache :
        \E a \in DOMAIN cache[j].attachments : IsVideo(cache[j].attachments[a].filename)}}

\* lines 1414-1426: the loop is over; with an active channel the top generations are
\* taken from the cache as it is now, otherwise a notice is sent
GS_LoopDone ==
    /\ gs_pc = "next"
    /\ gs_ci > Len(channels_to_process)
    /\ gs_pc' = "done"
    /\ top_candidates' = IF active_channels THEN VideoKeys(attachment_cache) ELSE {}
    /\ UNCHANGED <<dev_mode, channels_to_monitor, gs_reach, channels_to_process,
                   gs_ci, gs_mi, gs_ai, messages,
                   cache_iter, active_channels, gs_videos>>
    /\ UNCHANGED <<fn2Vars, fn3Vars, rlVars, psVars, ccVars, tpVars, paVars>>

GS_Init ==
    /\ dev_mode \in BOOLEAN
    /\ channels_to_monitor \in ChannelLists
    /\ gs_reach \in SUBSET ScanChannels
    /\ channels_to_process = <<>>
    /\ gs_pc = "build"
    /\ gs_ci = 1
    /\ gs_mi = 1
    /\ gs_ai = 1
    /\ messages = 0
    /\ cache_iter = <<>>
    /\ active_channels = FALSE
    /\ gs_videos = {}
    /\ top_candidates = {}

GS_Next ==
    \/ GS_BuildList
    \/ \E found \in BOOLEAN : GS_StartChannel(found)
    \/ \E dl \in Downloads : GS_ProcessAttachment(dl)
    \/ GS_Message
    \/ \E extra \in {0, MinMessages} : GS_HistoryDone(extra)
    \/ GS_HistoryFails
    \/ \E kind \in {"gens", "nothing", "error", "post"} : GS_Summarise(kind)
    \/ GS_PostSummary
    \/ GS_LoopDone

GS_Idle ==
    /\ dev_mode = FALSE
    /\ channels_to_monitor = <<>>
    /\ gs_reach = {}
    /\ channels_to_process = <<>>
    /\ gs_pc = "next"
    /\ gs_ci = 1
    /\ gs_mi = 1
    /\ gs_ai = 1
    /\ messages = 0
    /\ cache_iter = <<>>
    /\ active_channels = FALSE
    /\ gs_videos = {}
    /\ top_candidates = {}

(***************************************************************************)
(* The attachment selection of process_topic (src/main.py:942-974) on      *)
(* caches large enough for the top-10 cut to drop files.                   *)
(***************************************************************************)
\* Bound: attachments of one message
MaxFilesPerMessage == 6

\* attachment.filename of the i-th attachment of a message
FileName(i) == <<"a.png", "b.png", "c.png", "d.png", "e.png", "f.png", "g.png", "h.png">>[i]

\* The bucket a scan leaves for message m with n attachments and r reactions
BigBucket(m, n, r) ==
    [key |-> CacheKey(SRC, m), reaction_count |-> r,
     attachments |-> [i \in 1..n |-> [filename |-> FileName(i), reaction_count |-> r]]]

\* The buckets message m may have left: none, or one with 1..MaxFilesPerMessage files
BigBuckets(m) ==
    {<<>>} \cup {<<BigBucket(m, n, r)>> : n \in 1..MaxFilesPerMessage, r \in ReactionCounts}

\* The caches of a scan over m1 and m2, oldest first
BigCaches == {b1 \o b2 : b1 \in BigBuckets("m1"), b2 \in BigBuckets("m2")}

\* The links of a topic text: to m1, to m2 and to a message that left no bucket
TopicLinks == {<<SRC, m>> : m \in {"m1", "m2", "m3"}}

\* A resolution that takes the buckets it reads out of the cache
CacheAfterResolvePopped(cache, order) ==
    LET keys == {CacheKey(order[i][1], order[i][2]) : i \in DOMAIN order}
        Keep(i) == cache[i].key \notin keys
        RECURSIVE F(_)
        F(i) == IF i > Len(cache) THEN <<>>
                ELSE (IF Keep(i) THEN <<cache[i]>> ELSE <<>>) \o F(i + 1)
    IN F(1)
\* lines 949-953: the cache is only tested for membership and read
CacheAfterResolve(cache, order) == cache

\* lines 942-974: iterate the set of links, prepare, sort, cut
TP_Select(order) ==
    /\ tp_pc = "select"
    /\ tp_order' = order
    /\ tp_files' = ChunkFiles(order)
    /\ attachment_cache' = CacheAfterResolve(attachment_cache, order)
    /\ tp_pc' = "done"
    /\ UNCHANGED <<tp_links, tp_files2>>
    /\ UNCHANGED <<fn2Vars, fn3Vars, rlVars, psRest, ccVars, paVars, gsVars>>

\* lines 942-974 on the same topic text again (post_summary, lines 1236-1262,
\* hands every topic to process_topic for the main thread and again for the
\* source thread): the set is built from the same findall list in the same
\* process, so it is iterated in the same order
TP_SelectAgain ==
    /\ tp_pc = "done"
    /\ tp_files2' = ChunkFiles(tp_order)
    /\ attachment_cache' = CacheAfterResolve(attachment_cache, tp_order)
    /\ tp_pc' = "again"
    /\ UNCHANGED <<tp_links, tp_order, tp_files>>
    /\ UNCHANGED <<fn2Vars, fn3Vars, rlVars, psRest, ccVars, paVars, gsVars>>

TP_Idle ==
    /\ tp_links = {}
    /\ tp_order = <<>>
    /\ tp_pc = "select"
    /\ tp_files = <<>>
    /\ tp_files2 = <<>>

TP_Init ==
    /\ tp_links \in SUBSET TopicLinks
    /\ tp_order = <<>>
    /\ tp_pc = "select"
    /\ tp_files = <<>>
    /\ tp_files2 = <<>>

\* post_summary at its start, with any cache
PS_IdleRest ==
    /\ db = [c \in {SRC, SUMCH} |-> None]
    /\ old_thread = "deleted"
    /\ prior = {}
    /\ topics = <<{}>>
    /\ pc = "lookup"
    /\ ti = 1
    /\ existing_thread_id = None
    /\ source_thread = None
    /\ thread_existed = FALSE
    /\ thread = None
    /\ used_message_ids = {}
    /\ used_files = {}
    /\ used_filenames = [t \in Threads |-> {}]
    /\ unused_attachments = [t \in Threads |-> <<>>]
    /\ created = {}
    /\ sent = <<>>
    /\ failures = 0

(***************************************************************************)
(* process_unused_attachments (src/main.py:1001-1120) followed send by     *)
(* send, on caches with more candidates than either limit. The call has    *)
(* no previous thread (previous_thread_id is None).                        *)
(***************************************************************************)
\* The used ids post_summary hands over: the link tuples of the topics
UsedIdSets == {TopicUsedIds(L) : L \in SUBSET Links}

\* the whole sorted list, when the limit is not applied
UnusedEntriesUncut(found, max_attachments) == found
\* line 1055: `unused_attachments[:max_attachments]`
UnusedEntries(found, max_attachments) == Take(found, max_attachments)

UnusedMsg(kind, e) == [kind |-> kind, file |-> e.file, msg |-> e.msg, rc |-> e.rc]
NoEntry == [file |-> None, msg |-> None, rc |-> 0]

\* lines 1017-1050: collect the candidates and sort them
UA_Collect ==
    /\ ua_pc = "collect"
    /\ ua_found' = SortDesc(Candidates(attachment_cache, ua_ids, ua_names))
    /\ ua_pc' = IF ua_found' = <<>> THEN "footer" ELSE "header"
    /\ UNCHANGED <<ua_max, ua_ids, ua_names, ua_i, ua_failed, ua_sent>>
    /\ UNCHANGED <<rlVars, psVars, fnVars, fn3Vars, lkVars, spVars, ssVars>>

\* line 1053: the header; safe_send_message re-raises and nothing here catches
UA_Header(fails) ==
    /\ ua_pc = "header"
    /\ ua_pc' = IF fails THEN "raised" ELSE "entries"
    /\ ua_sent' = IF fails THEN ua_sent ELSE Append(ua_sent, UnusedMsg("unused_header", NoEntry))
    /\ UNCHANGED <<ua_max, ua_ids, ua_names, ua_found, ua_i, ua_failed>>
    /\ UNCHANGED <<rlVars, psVars, fnVars, fn3Vars, lkVars, spVars, ssVars>>

\* lines 1056-1058: one pass of the loop; a send that raises leaves the function
UA_Entry(fails) ==
    LET entries == UnusedEntries(ua_found, ua_max)
    IN /\ ua_pc = "entries"
       /\ ua_i <= Len(entries)
       /\ IF fails
          THEN /\ ua_failed' = ua_failed \cup {ua_i}
               /\ ua_pc' = "raised"
               /\ UNCHANGED <<ua_i, ua_sent>>
          ELSE /\ ua_sent' = Append(ua_sent, UnusedMsg("unused", entries[ua_i]))
               /\ ua_i' = ua_i + 1
               /\ ua_pc' = IF ua_i' > Len(entries) THEN "footer" ELSE "entries"
               /\ UNCHANGED ua_failed
       /\ UNCHANGED <<ua_max, ua_ids, ua_names, ua_found>>
       /\ UNCHANGED <<rlVars, psVars, fnVars, fn3Vars, lkVars, spVars, ssVars>>

\* lines 1060-1120: the footer, every failure of which is caught and logged
UA_Footer(fails) ==
    /\ ua_pc = "footer"
    /\ ua_pc' = "done"
    /\ ua_sent' = IF fails THEN ua_sent ELSE Append(ua_sent, UnusedMsg("footer", NoEntry))
    /\ UNCHANGED <<ua_max, ua_ids, ua_names, ua_found, ua_i, ua_failed>>
    /\ UNCHANGED <<rlVars, psVars, fnVars, fn3Vars, lkVars, spVars, ssVars>>

UA_Next ==
    \/ UA_Collect
    \/ \E fails \in BOOLEAN : UA_Header(fails)
    \/ \E fails \in BOOLEAN : UA_Entry(fails)
    \/ \E fails \in BOOLEAN : UA_Footer(fails)

UA_Idle ==
    /\ ua_max = DefaultMaxAttachments
    /\ ua_ids = {}
    /\ ua_names = {}
    /\ ua_pc = "collect"
    /\ ua_found = <<>>
    /\ ua_i = 1
    /\ ua_failed = {}
    /\ ua_sent = <<>>

\* the calls of post_summary: the default limit (line 1236) and 3 (line 1267)
UA_Init ==
    /\ ua_max \in {DefaultMaxAttachments, SourceMaxAttachments}
    /\ ua_ids \in UsedIdSets
    /\ ua_names \in SUBSET {FileName(1), FileName(2)}
    /\ ua_pc = "collect"
    /\ ua_found = <<>>
    /\ ua_i = 1
    /\ ua_failed = {}
    /\ ua_sent = <<>>

(***************************************************************************)
(* generate_summary of summariser.py (lines 1340-1674): the whole body     *)
(* runs inside `async with self._summary_lock`, an asyncio.Lock made once  *)
(* in __init__ (line 322).                                                 *)
(***************************************************************************)
\* Bounds: concurrent invocations, and awaits inside the body
MaxInvocations == 3
BodySteps == 2

Invocations == 1..MaxInvocations

\* an acquire that never waits
LockFreeAlways(locked, waiters) == TRUE
\* asyncio.Lock.acquire takes the lock at once when it is free and nobody waits
LockFree(locked, waiters) == ~locked /\ waiters = <<>>

RemoveFrom(seq, p) == SelectSeq(seq, LAMBDA x : x # p)

\* line 1350, __aenter__: take the lock or queue up
LK_Enter(p) ==
    /\ lk_pc[p] = "idle"
    /\ IF LockFree(lk_locked, lk_waiters)
       THEN /\ lk_locked' = TRUE
            /\ lk_pc' = [lk_pc EXCEPT ![p] = "body"]
            /\ UNCHANGED lk_waiters
       ELSE /\ lk_waiters' = Append(lk_waiters, p)
            /\ lk_pc' = [lk_pc EXCEPT ![p] = "waiting"]
            /\ UNCHANGED lk_locked
    /\ UNCHANGED <<lk_woken, lk_step>>
    /\ UNCHANGED <<rlVars, psVars, fnVars, fn3Vars, uaVars, spVars, ssVars>>

\* line 1350: a woken waiter resumes inside acquire and takes the lock
LK_Resume(p) ==
    /\ lk_pc[p] = "waiting"
    /\ p \in lk_woken
    /\ lk_waiters' = RemoveFrom(lk_waiters, p)
    /\ lk_woken' = lk_woken \ {p}
    /\ lk_locked' = TRUE
    /\ lk_pc' = [lk_pc EXCEPT ![p] = "body"]
    /\ UNCHANGED lk_step
    /\ UNCHANGED <<rlVars, psVars, fnVars, fn3Vars, uaVars, spVars, ssVars>>

\* lines 1351-1665: an await inside the body gives the other invocations a turn
LK_BodyStep(p) ==
    /\ lk_pc[p] = "body"
    /\ lk_step[p] < BodySteps
    /\ lk_step' = [lk_step EXCEPT ![p] = @ + 1]
    /\ UNCHANGED <<lk_locked, lk_waiters, lk_woken, lk_pc>>
    /\ UNCHANGED <<rlVars, psVars, fnVars, fn3Vars, uaVars, spVars, ssVars>>

\* the body ends (early `return`, its last statement, or an exception): __aexit__
\* releases the lock and resolves the future of the first waiter
LK_Exit(p, raises) ==
    /\ lk_pc[p] = "body"
    /\ lk_locked' = FALSE
    /\ lk_woken' = IF lk_waiters = <<>> THEN lk_woken ELSE lk_woken \cup {Head(lk_waiters)}
    /\ lk_pc' = [lk_pc EXCEPT ![p] = IF raises THEN "raised" ELSE "returned"]
    /\ UNCHANGED <<lk_waiters, lk_step>>
    /\ UNCHANGED <<rlVars, psVars, fnVars, fn3Vars, uaVars, spVars, ssVars>>

\* the scheduler or a command calls generate_summary again later
LK_Again(p) ==
    /\ lk_pc[p] \in {"returned", "raised"}
    /\ lk_pc' = [lk_pc EXCEPT ![p] = "idle"]
    /\ lk_step' = [lk_step EXCEPT ![p] = 0]
    /\ UNCHANGED <<lk_locked, lk_waiters, lk_woken>>
    /\ UNCHANGED <<rlVars, psVars, fnVars, fn3Vars, uaVars, spVars, ssVars>>

LK_Next ==
    \E p \in Invocations :
        \/ LK_Enter(p)
        \/ LK_Resume(p)
        \/ LK_BodyStep(p)
        \/ \E raises \in BOOLEAN : LK_Exit(p, raises)
        \/ LK_Again(p)

\* __init__, line 322: a fresh lock; no invocation has started
LK_Init ==
    /\ lk_locked = FALSE
    /\ lk_waiters = <<>>
    /\ lk_woken = {}
    /\ lk_pc = [p \in Invocations |-> "idle"]
    /\ lk_step = [p \in Invocations |-> 0]

(***************************************************************************)
(* post_summary, src/main.py:1223-1224: the split of the summary on the    *)
(* heading delimiter "## ". A text is a sequence of characters: "#", a     *)
(* space, a newline or an ordinary character.                              *)
(***************************************************************************)
\* Bound: characters of a summary
MaxSummaryLen == 5

Hash == "#"
Space == " "
SplitChars == {Hash, Space, "\n", "x"}
Whitespace == {Space, "\n"}
\* "## "
Delimiter == <<Hash, Hash, Space>>

SummaryTexts == UNION {[1..n -> SplitChars] : n \in 0..MaxSummaryLen}

\* str.find(sep): the first index at which sep starts, 0 when there is none
FindDelimiter(t) ==
    LET hits == {i \in 1..(Len(t) - Len(Delimiter) + 1) :
                    SubSeq(t, i, i + Len(Delimiter) - 1) = Delimiter}
    IN IF hits = {} THEN 0 ELSE CHOOSE i \in hits : \A j \in hits : i <= j

\* summary.split("## "): the pieces between the occurrences found left to right
RECURSIVE StrSplit(_)
StrSplit(t) ==
    LET i == FindDelimiter(t)
    IN IF i = 0 THEN <<t>>
       ELSE <<SubSeq(t, 1, i - 1)>> \o StrSplit(SubSeq(t, i + Len(Delimiter), Len(t)))

\* str.lstrip() and str.rstrip(chars)
RECURSIVE LStripOf(_, _)
LStripOf(t, chars) ==
    IF t # <<>> /\ Head(t) \in chars THEN LStripOf(Tail(t), chars) ELSE t
RECURSIVE RStripOf(_, _)
RStripOf(t, chars) ==
    IF t # <<>> /\ t[Len(t)] \in chars THEN RStripOf(SubSeq(t, 1, Len(t) - 1), chars) ELSE t
\* str.strip()
Strip(t) == RStripOf(LStripOf(t, Whitespace), Whitespace)

\* line 1224: `t.strip().rstrip('#').strip()`
TrimTopic(t) == Strip(RStripOf(Strip(t), {Hash}))

\* lines 1223-1224: split, keep the pieces that are not blank, trim each
SplitTopics(summary) ==
    LET pieces == StrSplit(summary)
        kept == SelectSeq(pieces, LAMBDA t : Strip(t) # <<>>)
    IN [i \in DOMAIN kept |-> TrimTopic(kept[i])]

SP_Split ==
    /\ sp_pc = "split"
    /\ sp_topics' = SplitTopics(sp_summary)
    /\ sp_pc' = "done"
    /\ UNCHANGED sp_summary
    /\ UNCHANGED <<rlVars, psVars, fnVars, fn3Vars, uaVars, lkVars, ssVars>>

SP_Idle ==
    /\ sp_summary = <<>>
    /\ sp_pc = "split"
    /\ sp_topics = <<>>

SP_Init ==
    /\ sp_summary \in SummaryTexts
    /\ sp_pc = "split"
    /\ sp_topics = <<>>

(***************************************************************************)
(* generate_short_summary (src/main.py:738-804, summariser.py:526-603):    *)
(* the retry loop around the LLM call.                                     *)
(***************************************************************************)
\* `max_retries = 3`
short_max_retries == 3

\* What one LLM call does: it answers, or raises anthropic.APIError,
\* asyncio.TimeoutError or another Exception (an answer without content included)
LlmOutcomes == {"ok", "api_error", "timeout", "error"}

\* a loop that goes on whatever the count
RetriesLeftAlways(count) == TRUE
\* `retry_count < max_retries`, the test of the while and of each handler
RetriesLeft(count) == count < short_max_retries

\* The handler an exception lands in, "none" when no branch takes it: main.py has no
\* APIError branch, and the last branch of both copies is `except Exception`
HandlerOf(variant, o) ==
    IF o = "timeout" THEN "timeout"
    ELSE IF o = "api_error" /\ variant = "summariser" THEN "api_error"
    ELSE IF o \in {"api_error", "error"} THEN "error"
    ELSE "none"

NoResult == [kind |-> "none", why |-> "none"]

\* one pass of the while: the call, then `return` or the handler of the exception
SS_Attempt(o) ==
    /\ ss_pc = "attempt"
    /\ RetriesLeft(retry_count)
    /\ ss_outcomes' = Append(ss_outcomes, o)
    /\ IF o = "ok"
       THEN /\ ss_result' = [kind |-> "text", why |-> "llm"]
            /\ ss_pc' = "returned"
            /\ UNCHANGED retry_count
       ELSE IF HandlerOf(ss_variant, o) = "none"
       THEN /\ ss_pc' = "raised"
            /\ UNCHANGED <<retry_count, ss_result>>
       ELSE /\ retry_count' = retry_count + 1
            /\ IF RetriesLeft(retry_count')
               THEN /\ ss_pc' = "sleep"
                    /\ UNCHANGED ss_result
               ELSE /\ ss_result' = [kind |-> "fallback", why |-> HandlerOf(ss_variant, o)]
                    /\ ss_pc' = "returned"
    /\ UNCHANGED ss_variant
    /\ UNCHANGED <<rlVars, psVars, fnVars, fn3Vars, uaVars, lkVars, spVars>>

\* `await asyncio.sleep(5)`, then back to the test of the while
SS_Sleep ==
    /\ ss_pc = "sleep"
    /\ ss_pc' = "attempt"
    /\ UNCHANGED <<ss_variant, retry_count, ss_outcomes, ss_result>>
    /\ UNCHANGED <<rlVars, psVars, fnVars, fn3Vars, uaVars, lkVars, spVars>>

\* the caller calls it again for the next channel
SS_Again ==
    /\ ss_pc = "returned"
    /\ ss_pc' = "attempt"
    /\ retry_count' = 0
    /\ ss_outcomes' = <<>>
    /\ ss_result' = NoResult
    /\ UNCHANGED ss_variant
    /\ UNCHANGED <<rlVars, psVars, fnVars, fn3Vars, uaVars, lkVars, spVars>>

SS_Next ==
    \/ \E o \in LlmOutcomes : SS_Attempt(o)
    \/ SS_Sleep
    \/ SS_Again

SS_Idle ==
    /\ ss_variant = "main"
    /\ ss_pc = "attempt"
    /\ retry_count = 0
    /\ ss_outcomes = <<>>
    /\ ss_result = NoResult

SS_Init ==
    /\ ss_variant \in {"main", "summariser"}
    /\ ss_pc = "attempt"
    /\ retry_count = 0
    /\ ss_outcomes = <<>>
    /\ ss_result = NoResult

(***************************************************************************)
(* main(): on_ready and schedule_daily_summary (src/main.py)               *)
(***************************************************************************)

\* the ready events handled in one life of the process
MaxReady == 2
\* the generate_summary runs one scheduler task makes
MaxRuns == 4
\* max_consecutive_failures = 3
max_consecutive_failures == 3

\* `consecutive_failures = 0` after `await bot.generate_summary()` returned
AfterSuccessKept(count) == count
AfterSuccess(count) == 0

\* `if consecutive_failures >= max_consecutive_failures:` ... `raise`
StopNow(count) == count >= max_consecutive_failures

SetTask(t, rec) == [sd_tasks EXCEPT ![t] = rec]

\* on_ready: with --run-now it awaits generate_summary itself; otherwise it
\* calls loop.create_task(schedule_daily_summary(bot)), whatever is running already.
\* A fresh scheduler computes its target and sleeps until it.
SD_OnReady ==
    /\ ~sd_closed
    /\ Len(sd_tasks) < MaxReady
    /\ sd_tasks' = Append(sd_tasks,
                       [kind |-> IF sd_run_now THEN "now" ELSE "sched",
                        pc |-> IF sd_run_now THEN "run" ELSE "sleep",
                        consecutive_failures |-> 0,
                        outcomes |-> <<>>])
    /\ UNCHANGED <<sd_run_now, sd_closed>>
    /\ UNCHANGED <<rlVars, psVars, fnVars, fn2Vars, sdRest>>

\* `await asyncio.sleep(delay)` ends and `await bot.generate_summary()` starts
SD_Wake(t) ==
    /\ sd_tasks[t].kind = "sched"
    /\ sd_tasks[t].pc = "sleep"
    /\ Len(sd_tasks[t].outcomes) < MaxRuns
    /\ sd_tasks' = SetTask(t, [sd_tasks[t] EXCEPT !.pc = "run"])
    /\ UNCHANGED <<sd_run_now, sd_closed>>
    /\ UNCHANGED <<rlVars, psVars, fnVars, fn2Vars, sdRest>>

\* generate_summary returns (ok) or raises. In the scheduler: the reset and the
\* next turn of the loop, or the except clause, which counts, re-raises at the
\* limit and otherwise goes to sleep for 300 s. In on_ready with --run-now: the
\* finally clause closes the session and the bot.
SD_Finish(t, ok) ==
    /\ sd_tasks[t].pc = "run"
    /\ LET rec == sd_tasks[t]
           out == Append(rec.outcomes, IF ok THEN "ok" ELSE "fail")
           failed == rec.consecutive_failures + 1
       IN  IF rec.kind = "now"
           THEN /\ sd_tasks' = SetTask(t, [rec EXCEPT !.pc = "done", !.outcomes = out])
                /\ sd_closed' = TRUE
           ELSE /\ sd_tasks' = SetTask(t,
                      IF ok
                      THEN [rec EXCEPT !.pc = "sleep", !.outcomes = out,
                              !.consecutive_failures = AfterSuccess(rec.consecutive_failures)]
                      ELSE [rec EXCEPT !.pc = IF StopNow(failed) THEN "raised" ELSE "backoff",
                              !.outcomes = out,
                              !.consecutive_failures = failed])
                /\ UNCHANGED sd_closed
    /\ UNCHANGED sd_run_now
    /\ UNCHANGED <<rlVars, psVars, fnVars, fn2Vars, sdRest>>

\* `await asyncio.sleep(300)` ends: the top of the loop, the next target, the sleep
SD_BackoffEnd(t) ==
    /\ sd_tasks[t].pc = "backoff"
    /\ sd_tasks' = SetTask(t, [sd_tasks[t] EXCEPT !.pc = "sleep"])
    /\ UNCHANGED <<sd_run_now, sd_closed>>
    /\ UNCHANGED <<rlVars, psVars, fnVars, fn2Vars, sdRest>>

SD_Next ==
    \/ SD_OnReady
    \/ \E t \in DOMAIN sd_tasks : SD_Wake(t)
    \/ \E t \in DOMAIN sd_tasks, ok \in BOOLEAN : SD_Finish(t, ok)
    \/ \E t \in DOMAIN sd_tasks : SD_BackoffEnd(t)

SD_Idle ==
    /\ sd_run_now = FALSE
    /\ sd_tasks = <<>>
    /\ sd_closed = FALSE

SD_Init ==
    /\ sd_run_now \in BOOLEAN
    /\ sd_tasks = <<>>
    /\ sd_closed = FALSE

(***************************************************************************)
(* schedule_daily_summary (summariser.py)                                  *)
(***************************************************************************)

\* timedelta(days=1) and asyncio.sleep(86400), in hours
DayHours == 24
\* now_utc.replace(hour=10, minute=0, second=0, microsecond=0)
RunHour == 10
\* the days one behaviour covers
MaxDays == 3
\* the longest generate_summary run, in hours; every run takes time
MaxRunHours == 2

\* run_time: 10:00 of the day of `now`, or of the next day when that has passed
RunTimeToday(now) == (now \div DayHours) * DayHours + RunHour
RunTime(now) ==
    IF RunTimeToday(now) < now THEN RunTimeToday(now) + DayHours ELSE RunTimeToday(now)

\* the test of the while, the computation of run_time, up to the sleep
DS_Top ==
    /\ ds_pc = "top"
    /\ IF ds_shutdown
       THEN ds_pc' = "stopped" /\ UNCHANGED ds_run_time
       ELSE ds_pc' = "wait" /\ ds_run_time' = RunTime(ds_now)
    /\ UNCHANGED <<ds_now, ds_starts, ds_shutdown>>
    /\ UNCHANGED <<rlVars, psVars, fnVars, fn2Vars, dsRest>>

\* the sleep until run_time ends; `if bot._shutdown_flag: break`, else
\* generate_summary is started
DS_SleepEnd ==
    /\ ds_pc = "wait"
    /\ ds_run_time <= MaxDays * DayHours
    /\ ds_now' = ds_run_time
    /\ IF ds_shutdown
       THEN ds_pc' = "stopped" /\ UNCHANGED ds_starts
       ELSE ds_pc' = "run" /\ ds_starts' = Append(ds_starts, ds_run_time)
    /\ UNCHANGED <<ds_run_time, ds_shutdown>>
    /\ UNCHANGED <<rlVars, psVars, fnVars, fn2Vars, dsRest>>

\* generate_summary returns or raises after `hours`; the except clause logs; then
\* the scheduler starts asyncio.sleep(86400)
DS_RunEnd(hours, ok) ==
    /\ ds_pc = "run"
    /\ ds_now' = ds_now + hours
    /\ ds_pc' = "rest"
    /\ UNCHANGED <<ds_run_time, ds_starts, ds_shutdown>>
    /\ UNCHANGED <<rlVars, psVars, fnVars, fn2Vars, dsRest>>

\* asyncio.sleep(86400) ends: back to the test of the while
DS_RestEnd ==
    /\ ds_pc = "rest"
    /\ ds_now' = ds_now + DayHours
    /\ ds_pc' = "top"
    /\ UNCHANGED <<ds_run_time, ds_starts, ds_shutdown>>
    /\ UNCHANGED <<rlVars, psVars, fnVars, fn2Vars, dsRest>>

\* `self._shutdown_flag = True`
DS_RequestShutdown ==
    /\ ~ds_shutdown
    /\ ds_pc # "stopped"
    /\ ds_shutdown' = TRUE
    /\ UNCHANGED <<ds_now, ds_pc, ds_run_time, ds_starts>>
    /\ UNCHANGED <<rlVars, psVars, fnVars, fn2Vars, dsRest>>

DS_Next ==
    \/ DS_Top
    \/ DS_SleepEnd
    \/ \E hours \in 1..MaxRunHours, ok \in BOOLEAN : DS_RunEnd(hours, ok)
    \/ DS_RestEnd
    \/ DS_RequestShutdown

DS_Idle ==
    /\ ds_now = 0
    /\ ds_pc = "top"
    /\ ds_run_time = 0
    /\ ds_starts = <<>>
    /\ ds_shutdown = FALSE

DS_Init ==
    /\ ds_now \in 0..(DayHours - 1)
    /\ ds_pc = "top"
    /\ ds_run_time = 0
    /\ ds_starts = <<>>
    /\ ds_shutdown = FALSE

(***************************************************************************)
(* cleanup and the finally clause of generate_summary (summariser.py)      *)
(***************************************************************************)

\* `if self._shutdown_flag: ... return` at the top of cleanup
CleanupReturnsAtOnce(flag) == flag

\* cleanup suspends only when it has an open session to close
CleanupSuspends(session) == session = "open"

\* cleanup called from outside generate_summary (__aexit__, __del__). With no open
\* session it runs to its end without a suspension: the session reference, the
\* Claude client and the database handler are dropped and the finally clause puts
\* the flag back. With an open session it sets the flag and suspends in
\* `await self.session.close()`.
CL_Cleanup ==
    /\ cl_pc = "idle"
    /\ ~CleanupReturnsAtOnce(cl_shutdown_flag)
    /\ IF CleanupSuspends(cl_session)
       THEN /\ cl_shutdown_flag' = TRUE
            /\ cl_pc' = "closing"
            /\ UNCHANGED <<cl_session, cl_claude, cl_db>>
       ELSE /\ cl_session' = "none"
            /\ cl_claude' = FALSE
            /\ cl_db' = FALSE
            /\ UNCHANGED <<cl_shutdown_flag, cl_pc>>
    /\ UNCHANGED <<cl_gs_pc, cl_gs_step, cl_triggered>>
    /\ UNCHANGED <<rlVars, psVars, fnVars, fn2Vars, clRest>>

\* session.close() returns, and cleanup suspends in asyncio.sleep(0.5); or it raises,
\* and cleanup goes on to its end
CL_SessionClosed(raises) ==
    /\ cl_pc = "closing"
    /\ IF raises
       THEN /\ cl_session' = "none"
            /\ cl_claude' = FALSE
            /\ cl_db' = FALSE
            /\ cl_shutdown_flag' = FALSE
            /\ cl_pc' = "idle"
       ELSE /\ cl_session' = "closed"
            /\ cl_pc' = "grace"
            /\ UNCHANGED <<cl_claude, cl_db, cl_shutdown_flag>>
    /\ UNCHANGED <<cl_gs_pc, cl_gs_step, cl_triggered>>
    /\ UNCHANGED <<rlVars, psVars, fnVars, fn2Vars, clRest>>

\* the sleep ends: the rest of cleanup, down to `self._shutdown_flag = False`
CL_CleanupEnd ==
    /\ cl_pc = "grace"
    /\ cl_session' = "none"
    /\ cl_claude' = FALSE
    /\ cl_db' = FALSE
    /\ cl_shutdown_flag' = FALSE
    /\ cl_pc' = "idle"
    /\ UNCHANGED <<cl_gs_pc, cl_gs_step, cl_triggered>>
    /\ UNCHANGED <<rlVars, psVars, fnVars, fn2Vars, clRest>>

\* generate_summary is called
CL_SummaryStart ==
    /\ cl_gs_pc = "idle"
    /\ cl_gs_pc' = "body"
    /\ cl_gs_step' = 0
    /\ cl_triggered' = "none"
    /\ UNCHANGED <<cl_shutdown_flag, cl_session, cl_claude, cl_db, cl_pc>>
    /\ UNCHANGED <<rlVars, psVars, fnVars, fn2Vars, clRest>>

\* one await of its body
CL_SummaryStep ==
    /\ cl_gs_pc = "body"
    /\ cl_gs_step < BodySteps
    /\ cl_gs_step' = cl_gs_step + 1
    /\ UNCHANGED <<cl_shutdown_flag, cl_session, cl_claude, cl_db, cl_pc, cl_gs_pc, cl_triggered>>
    /\ UNCHANGED <<rlVars, psVars, fnVars, fn2Vars, clRest>>

\* the body ends or raises; `finally: if self._shutdown_flag: await self.cleanup()`.
\* The cleanup called here finds the flag it was called for and returns.
CL_SummaryEnd(raises) ==
    /\ cl_gs_pc = "body"
    /\ cl_gs_pc' = IF raises THEN "raised" ELSE "returned"
    /\ IF ~cl_shutdown_flag
       THEN /\ cl_triggered' = "not_called"
            /\ UNCHANGED <<cl_session, cl_claude, cl_db>>
       ELSE IF CleanupReturnsAtOnce(cl_shutdown_flag)
       THEN /\ cl_triggered' = "skipped"
            /\ UNCHANGED <<cl_session, cl_claude, cl_db>>
       ELSE /\ cl_triggered' = "ran"
            /\ cl_session' = "none"
            /\ cl_claude' = FALSE
            /\ cl_db' = FALSE
    /\ UNCHANGED <<cl_shutdown_flag, cl_pc, cl_gs_step>>
    /\ UNCHANGED <<rlVars, psVars, fnVars, fn2Vars, clRest>>

\* the caller goes on to the next run
CL_SummaryAgain ==
    /\ cl_gs_pc \in {"returned", "raised"}
    /\ cl_gs_pc' = "idle"
    /\ UNCHANGED <<cl_shutdown_flag, cl_session, cl_claude, cl_db, cl_pc, cl_gs_step, cl_triggered>>
    /\ UNCHANGED <<rlVars, psVars, fnVars, fn2Vars, clRest>>

CL_Next ==
    \/ CL_Cleanup
    \/ \E raises \in BOOLEAN : CL_SessionClosed(raises)
    \/ CL_CleanupEnd
    \/ CL_SummaryStart
    \/ CL_SummaryStep
    \/ \E raises \in BOOLEAN : CL_SummaryEnd(raises)
    \/ CL_SummaryAgain

CL_Idle ==
    /\ cl_shutdown_flag = FALSE
    /\ cl_session = "none"
    /\ cl_claude = TRUE
    /\ cl_db = TRUE
    /\ cl_pc = "idle"
    /\ cl_gs_pc = "idle"
    /\ cl_gs_step = 0
    /\ cl_triggered = "none"

\* after __init__, before or after setup has opened the session
CL_Init ==
    /\ cl_shutdown_flag = FALSE
    /\ cl_session \in {"none", "open", "closed"}
    /\ cl_claude = TRUE
    /\ cl_db = TRUE
    /\ cl_pc = "idle"
    /\ cl_gs_pc = "idle"
    /\ cl_gs_step = 0
    /\ cl_triggered = "none"

(***************************************************************************)
(* BaseDiscordBot: connection health (base_bot.py)                         *)
(***************************************************************************)

\* self._heartbeat_timeout = 60.0, in periods of 30 s
HeartbeatTimeout == 2
\* the oldest heartbeat told apart
MaxAge == 3
\* the invalid sessions counted
MaxFailedSessions == 2
\* _last_heartbeat is None
NoHeartbeat == -1

SocketResponses == {"invalid_session", "auth_failed", "READY", "RESUMED", "other"}

\* time_since_heartbeat < self._heartbeat_timeout
IsHealthy(age) == age < HeartbeatTimeout

\* what _is_connection_healthy returns
CheckResult(age) == IF age = NoHeartbeat THEN FALSE ELSE IsHealthy(age)

\* and what it leaves in _connection_healthy: the early return for a missing
\* heartbeat does not touch the flag
FlagAfterCheck(flag, age) ==
    IF age = NoHeartbeat THEN flag
    ELSE IF ~IsHealthy(age) /\ flag THEN FALSE
    ELSE flag

\* 30 s pass
BB_Tick ==
    /\ ~bb_closed
    /\ bb_heartbeat_age # NoHeartbeat
    /\ bb_heartbeat_age < MaxAge
    /\ bb_heartbeat_age' = bb_heartbeat_age + 1
    /\ bb_check' = "none"
    /\ UNCHANGED <<_connection_healthy, _failed_session_count, bb_session, bb_closed,
                   bb_error_handler>>
    /\ UNCHANGED <<rlVars, psVars, fnVars, fn2Vars, bbRest>>

\* _run_health_checks: one call of _is_connection_healthy
BB_HealthCheck ==
    /\ ~bb_closed
    /\ bb_check' = IF CheckResult(bb_heartbeat_age) THEN "healthy" ELSE "unhealthy"
    /\ _connection_healthy' = FlagAfterCheck(_connection_healthy, bb_heartbeat_age)
    /\ UNCHANGED <<bb_heartbeat_age, _failed_session_count, bb_session, bb_closed,
                   bb_error_handler>>
    /\ UNCHANGED <<rlVars, psVars, fnVars, fn2Vars, bbRest>>

\* on_socket_raw_receive with a heartbeat ACK ('"op":11')
BB_HeartbeatAck ==
    /\ ~bb_closed
    /\ bb_heartbeat_age' = 0
    /\ _connection_healthy' = TRUE
    /\ bb_check' = "none"
    /\ UNCHANGED <<_failed_session_count, bb_session, bb_closed, bb_error_handler>>
    /\ UNCHANGED <<rlVars, psVars, fnVars, fn2Vars, bbRest>>

\* on_socket_response with one message
BB_SocketResponse(kind) ==
    /\ ~bb_closed
    /\ kind = "invalid_session" => _failed_session_count < MaxFailedSessions
    /\ _connection_healthy' =
          IF kind \in {"invalid_session", "auth_failed"} THEN FALSE
          ELSE IF kind \in {"READY", "RESUMED"} THEN TRUE
          ELSE _connection_healthy
    /\ _failed_session_count' =
          IF kind = "invalid_session" THEN _failed_session_count + 1
          ELSE IF kind \in {"READY", "RESUMED"} THEN 0
          ELSE _failed_session_count
    /\ bb_session' =
          IF kind = "invalid_session" THEN FALSE
          ELSE IF kind = "READY" THEN TRUE
          ELSE bb_session
    /\ bb_closed' = (kind = "auth_failed")
    /\ bb_check' = "none"
    /\ UNCHANGED <<bb_heartbeat_age, bb_error_handler>>
    /\ UNCHANGED <<rlVars, psVars, fnVars, fn2Vars, bbRest>>

\* on_ready
BB_OnReady ==
    /\ ~bb_closed
    /\ _connection_healthy' = TRUE
    /\ bb_heartbeat_age' = 0
    /\ bb_error_handler' = TRUE
    /\ bb_check' = "none"
    /\ UNCHANGED <<_failed_session_count, bb_session, bb_closed>>
    /\ UNCHANGED <<rlVars, psVars, fnVars, fn2Vars, bbRest>>

BB_Next ==
    \/ BB_Tick
    \/ BB_HealthCheck
    \/ BB_HeartbeatAck
    \/ \E kind \in SocketResponses : BB_SocketResponse(kind)
    \/ BB_OnReady

\* __init__
BB_Init ==
    /\ _connection_healthy = FALSE
    /\ bb_heartbeat_age = NoHeartbeat
    /\ _failed_session_count = 0
    /\ bb_session = FALSE
    /\ bb_closed = FALSE
    /\ bb_error_handler = FALSE
    /\ bb_check = "none"

(***************************************************************************)
(* Sharer.finalize_sharing (sharer.py)                                     *)
(***************************************************************************)

\* get_member's answers: no row, a row without the column, consent false, consent true
UserRecords == {"none", "no_key", "refused", "consented"}

ShareFiles == {"a.png", "v.mp4", "g.gif"}
\* the attachments of one shared message
MaxShareFiles == 2
ShareFileLists == UNION {[1..n -> ShareFiles] : n \in 0..MaxShareFiles}

\* `if not user_details:`
RecordExists(rec) == rec # "none"

\* user_details.get('sharing_consent', False)
ConsentGivenToAll(rec) == TRUE
ConsentGiven(rec) == rec = "consented"

\* the suffix tests on the primary attachment
ShareIsVideo(f) == f = "v.mp4"
ShareIsGif(f) == f = "g.gif"

\* the Zapier webhooks in the order they are posted to
Webhooks == <<"instagram", "tiktok", "youtube">>

\* The call up to its first await: the record is read and tested, and the call
\* either returns or goes on to fetch the message.
SH_Call(files) ==
    /\ sh_pc = "idle"
    /\ sh_at_call' = sh_member
    /\ sh_files' = files
    /\ sh_i' = 1
    /\ sh_attempted' = <<>>
    /\ sh_downloaded' = <<>>
    /\ sh_posts' = <<>>
    /\ sh_pc' = IF RecordExists(sh_member) /\ ConsentGiven(sh_member) THEN "fetch" ELSE "done"
    /\ UNCHANGED sh_member
    /\ UNCHANGED <<rlVars, psVars, fnVars, fn2Vars, shRest>>

\* _fetch_message returns the message or None; a message without attachments ends
\* the call at `if not downloaded_attachments`
SH_Fetch(found) ==
    /\ sh_pc = "fetch"
    /\ sh_pc' = IF found /\ sh_files # <<>> THEN "download" ELSE "done"
    /\ UNCHANGED <<sh_member, sh_at_call, sh_files, sh_i, sh_attempted, sh_downloaded, sh_posts>>
    /\ UNCHANGED <<rlVars, psVars, fnVars, fn2Vars, shRest>>

\* one _download_attachment; after the last one, the test for an empty list and the
\* choice of the title
SH_Download(ok) ==
    /\ sh_pc = "download"
    /\ sh_attempted' = Append(sh_attempted, sh_files[sh_i])
    /\ sh_downloaded' = IF ok THEN Append(sh_downloaded, sh_files[sh_i]) ELSE sh_downloaded
    /\ sh_i' = sh_i + 1
    /\ sh_pc' = IF sh_i < Len(sh_files) THEN "download"
                ELSE IF sh_downloaded' = <<>> THEN "done"
                ELSE IF ShareIsVideo(sh_downloaded'[1]) THEN "title"
                ELSE "tweet"
    /\ UNCHANGED <<sh_member, sh_at_call, sh_files, sh_posts>>
    /\ UNCHANGED <<rlVars, psVars, fnVars, fn2Vars, shRest>>

\* generate_social_media_title returns, or raises out of the call
SH_Title(raises) ==
    /\ sh_pc = "title"
    /\ sh_pc' = IF raises THEN "done" ELSE "tweet"
    /\ UNCHANGED <<sh_member, sh_at_call, sh_files, sh_i, sh_attempted, sh_downloaded, sh_posts>>
    /\ UNCHANGED <<rlVars, psVars, fnVars, fn2Vars, shRest>>

\* post_tweet, whatever it returns; a GIF skips the webhooks and the files are removed
SH_Tweet ==
    /\ sh_pc = "tweet"
    /\ sh_posts' = Append(sh_posts, "twitter")
    /\ sh_pc' = IF ShareIsGif(sh_downloaded[1]) THEN "done" ELSE "zapier"
    /\ UNCHANGED <<sh_member, sh_at_call, sh_files, sh_i, sh_attempted, sh_downloaded>>
    /\ UNCHANGED <<rlVars, psVars, fnVars, fn2Vars, shRest>>

\* the next webhook post; after the last the files are removed and the call returns
SH_Zapier ==
    /\ sh_pc = "zapier"
    /\ sh_posts' = Append(sh_posts, Webhooks[Len(sh_posts)])
    /\ sh_pc' = IF Len(sh_posts) = Len(Webhooks) THEN "done" ELSE "zapier"
    /\ UNCHANGED <<sh_member, sh_at_call, sh_files, sh_i, sh_attempted, sh_downloaded>>
    /\ UNCHANGED <<rlVars, psVars, fnVars, fn2Vars, shRest>>

\* the caller is free to call again
SH_Return ==
    /\ sh_pc = "done"
    /\ sh_pc' = "idle"
    /\ UNCHANGED <<sh_member, sh_at_call, sh_files, sh_i, sh_attempted, sh_downloaded, sh_posts>>
    /\ UNCHANGED <<rlVars, psVars, fnVars, fn2Vars, shRest>>

\* the members table changes under the call: the user gives or withdraws consent
SH_DbUpdate(rec) ==
    /\ rec # sh_member
    /\ sh_member' = rec
    /\ UNCHANGED <<sh_at_call, sh_pc, sh_files, sh_i, sh_attempted, sh_downloaded, sh_posts>>
    /\ UNCHANGED <<rlVars, psVars, fnVars, fn2Vars, shRest>>

SH_Next ==
    \/ \E files \in ShareFileLists : SH_Call(files)
    \/ \E found \in BOOLEAN : SH_Fetch(found)
    \/ \E ok \in BOOLEAN : SH_Download(ok)
    \/ \E raises \in BOOLEAN : SH_Title(raises)
    \/ SH_Tweet
    \/ SH_Zapier
    \/ SH_Return
    \/ \E rec \in UserRecords : SH_DbUpdate(rec)

SH_Idle ==
    /\ sh_member = "none"
    /\ sh_at_call = "unread"
    /\ sh_pc = "idle"
    /\ sh_files = <<>>
    /\ sh_i = 1
    /\ sh_attempted = <<>>
    /\ sh_downloaded = <<>>
    /\ sh_posts = <<>>

SH_Init ==
    /\ sh_member \in UserRecords
    /\ sh_at_call = "unread"
    /\ sh_pc = "idle"
    /\ sh_files = <<>>
    /\ sh_i = 1
    /\ sh_attempted = <<>>
    /\ sh_downloaded = <<>>
    /\ sh_posts = <<>>

FN3_Idle == SD_Idle /\ DS_Idle /\ CL_Idle /\ BB_Init /\ SH_Idle

FN2_Idle == UA_Idle /\ LK_Init /\ SP_Idle /\ SS_Idle

FN_Idle == CC_Idle /\ PA_Idle /\ GS_Idle /\ TP_Idle

Init == PS_Init /\ RL_Init /\ rl_variant = "main" /\ FN_Idle /\ FN2_Idle /\ FN3_Idle
Next == PS_Next
Spec == Init /\ [][Next]_vars

\* The rate limiter: execute calls; the pipeline stays at its start.
PS_Idle ==
    /\ db = [c \in {SRC, SUMCH} |-> None]
    /\ old_thread = "deleted"
    /\ prior = {}
    /\ attachment_cache = <<>>
    /\ topics = <<{}>>
    /\ pc = "lookup"
    /\ ti = 1
    /\ existing_thread_id = None
    /\ source_thread = None
    /\ thread_existed = FALSE
    /\ thread = None
    /\ used_message_ids = {}
    /\ used_files = {}
    /\ used_filenames = [t \in Threads |-> {}]
    /\ unused_attachments = [t \in Threads |-> <<>>]
    /\ created = {}
    /\ sent = <<>>
    /\ failures = 0

InitRL == RL_Init /\ PS_Idle /\ FN_Idle /\ FN2_Idle /\ FN3_Idle
NextRL == RL_Next
SpecRL == InitRL /\ [][NextRL]_vars
\* The same calls on an event loop that runs every coroutine that can take a step:
\* each sleep ends and each awaited operation completes.
SpecRLFair == SpecRL /\ WF_vars(NextRL)

\* chunk_content: one call on a text and a max_length; everything else stays idle.
InitChunk ==
    /\ CC_Init /\ RL_Init /\ rl_variant = "main" /\ PS_Idle /\ PA_Idle /\ GS_Idle /\ TP_Idle
    /\ FN2_Idle /\ FN3_Idle
NextChunk == CC_Call
SpecChunk == InitChunk /\ [][NextChunk]_vars

\* The attachment handler: process_attachment and clear_cache called in any order.
InitCache ==
    /\ RL_Init /\ rl_variant = "main" /\ PS_Idle /\ FN_Idle /\ FN2_Idle /\ FN3_Idle
NextCache ==
    \/ \E m \in MsgIds, f \in {"a.png", "b.png"}, rc \in CallReactions, dl \in Downloads :
          PA_Process(m, f, rc, dl)
    \/ PA_Clear
SpecCache == InitCache /\ [][NextCache]_vars

\* generate_summary: the loop over the channels, scanning each into the cache.
InitScan ==
    /\ RL_Init /\ rl_variant = "main" /\ PS_Idle /\ CC_Idle /\ PA_Idle /\ GS_Init /\ TP_Idle
    /\ FN2_Idle /\ FN3_Idle
NextScan == GS_Next
SpecScan == InitScan /\ [][NextScan]_vars

\* process_topic: the selection of a topic's attachments from a cache.
InitTopic ==
    /\ RL_Init /\ rl_variant = "main"
    /\ PS_IdleRest /\ attachment_cache \in BigCaches
    /\ CC_Idle /\ PA_Idle /\ GS_Idle /\ TP_Init
    /\ FN2_Idle /\ FN3_Idle
NextTopic ==
    \/ \E order \in Perms(tp_links) : TP_Select(order)
    \/ TP_SelectAgain
SpecTopic == InitTopic /\ [][NextTopic]_vars

\* process_unused_attachments: one call on a cache of up to 12 attachments.
InitUnused ==
    /\ RL_Init /\ rl_variant = "main"
    /\ PS_IdleRest /\ attachment_cache \in BigCaches
    /\ FN_Idle /\ UA_Init /\ LK_Init /\ SP_Idle /\ SS_Idle /\ FN3_Idle
NextUnused == UA_Next
SpecUnused == InitUnused /\ [][NextUnused]_vars

\* generate_summary of summariser.py called concurrently on one bot.
InitLock ==
    /\ RL_Init /\ rl_variant = "main" /\ PS_Idle /\ FN_Idle /\ FN2_Idle /\ FN3_Idle
NextLock == LK_Next
SpecLock == InitLock /\ [][NextLock]_vars

\* post_summary: the split of one summary into topics.
InitSplit ==
    /\ RL_Init /\ rl_variant = "main" /\ PS_Idle /\ FN_Idle
    /\ UA_Idle /\ LK_Init /\ SP_Init /\ SS_Idle /\ FN3_Idle
NextSplit == SP_Split
SpecSplit == InitSplit /\ [][NextSplit]_vars

\* generate_short_summary: calls with any outcome of each LLM call.
InitShort ==
    /\ RL_Init /\ rl_variant = "main" /\ PS_Idle /\ FN_Idle
    /\ UA_Idle /\ LK_Init /\ SP_Idle /\ SS_Init /\ FN3_Idle
NextShort == SS_Next
SpecShort == InitShort /\ [][NextShort]_vars

\* main() of src/main.py: ready events, the schedulers they start and their runs.
BaseIdle == RL_Init /\ rl_variant = "main" /\ PS_Idle /\ FN_Idle /\ FN2_Idle
InitSched == BaseIdle /\ SD_Init /\ DS_Idle /\ CL_Idle /\ BB_Init /\ SH_Idle
NextSched == SD_Next
SpecSched == InitSched /\ [][NextSched]_vars

\* schedule_daily_summary of summariser.py: one task from any hour of its first day.
InitDaily == BaseIdle /\ SD_Idle /\ DS_Init /\ CL_Idle /\ BB_Init /\ SH_Idle
NextDaily == DS_Next
SpecDaily == InitDaily /\ [][NextDaily]_vars

\* cleanup calls and generate_summary runs on one bot of summariser.py.
InitCleanup == BaseIdle /\ SD_Idle /\ DS_Idle /\ CL_Init /\ BB_Init /\ SH_Idle
NextCleanup == CL_Next
SpecCleanup == InitCleanup /\ [][NextCleanup]_vars

\* BaseDiscordBot: gateway events, health checks and the passing of time, in any order.
InitHealth == BaseIdle /\ SD_Idle /\ DS_Idle /\ CL_Idle /\ BB_Init /\ SH_Idle
NextHealth == BB_Next
SpecHealth == InitHealth /\ [][NextHealth]_vars

\* finalize_sharing called again and again while the members table changes.
InitShare == BaseIdle /\ SD_Idle /\ DS_Idle /\ CL_Idle /\ BB_Init /\ SH_Init
NextShare == SH_Next
SpecShare == InitShare /\ [][NextShare]_vars

(***************************************************************************)
(* Claims                                                                  *)
(***************************************************************************)
ThreadMsgs(t) == {i \in DOMAIN sent : sent[i].dest = t}

\* C1: within one run no attachment filename is attached more than once to the
\* messages sent into one destination thread.
C1_NoFilenameTwicePerThread ==
    \A t \in Threads : \A i, j \in ThreadMsgs(t) :
        (i # j /\ sent[i].file # None) => sent[i].file # sent[j].file

\* The message ids the resolver has reported to post_summary so far
ReportedMsgs == {u.val[2] : u \in used_message_ids}

\* C2: every message referenced by a processed topic counts as used: no entry posted
\* in an 'other popular attachments' section belongs to a message the resolver had
\* reported before.
C2_ReferencedMessagesCountAsUsed ==
    [][\A i \in (Len(sent) + 1)..Len(sent') :
          sent'[i].kind = "unused" => sent'[i].msg \notin ReportedMsgs]_vars

\* C3: when the persisted thread no longer exists, post_summary creates a new thread
\* and its id is the persisted id when post_summary completes.
C3_RecreatedThreadStaysPersisted ==
    (pc = "done" /\ existing_thread_id # None /\ old_thread = "deleted")
        => (<<T_NEW, SRC>> \in created /\ db[SRC] = T_NEW)

\* C4: when the persisted thread is fetched and its parent message exists, the run
\* posts into that thread, creates no thread in the source channel and leaves the
\* persisted id as it was.
C4_ThreadReuseIdempotent ==
    thread_existed =>
        /\ old_thread = "ok"
        /\ source_thread = existing_thread_id
        /\ db[SRC] = existing_thread_id
        /\ \A c \in created : c[2] # SRC
        /\ pc = "done" =>
              \E i \in ThreadMsgs(existing_thread_id) : sent[i].kind = "header"

C4_Witness ==
    /\ pc = "done"
    /\ thread_existed
    /\ existing_thread_id = T_OLD
    /\ \E i \in DOMAIN sent : sent[i].kind = "notify"
    /\ \E i \in ThreadMsgs(T_OLD) : sent[i].kind = "unused"

\* C5: the unused-attachment collector never selects, and so never posts, an entry
\* whose filename is in used_filenames.
C5_CollectorSkipsUsedFilenames ==
    /\ \A t \in Threads : \A i \in DOMAIN unused_attachments[t] :
          unused_attachments[t][i].file \notin used_filenames[t]
    /\ \A i \in DOMAIN sent :
          sent[i].kind = "unused" => sent[i].file \notin used_filenames[sent[i].dest]

\* A call that selected an entry and passed over a qualifying attachment of an unused
\* message because its filename was in used_filenames.
C5_Witness ==
    \E t \in Threads :
        /\ unused_attachments[t] # <<>>
        /\ \E i \in ThreadMsgs(t) : sent[i].kind = "unused"
        /\ \E k \in DOMAIN attachment_cache :
              /\ attachment_cache[k].reaction_count >= MinReactions
              /\ \E a \in DOMAIN attachment_cache[k].attachments :
                    attachment_cache[k].attachments[a].filename \in used_filenames[t]

\* C6: when every attempt fails with the rate limit without a duration or with an
\* HTTP error, execute raises after 5 attempts, and it never returns without the
\* result of a successful attempt.
C6_AbortsAfterMaxRetries ==
    /\ rl_pc = "returned" => rl_result = "result"
    /\ (rl_pc = "raised" /\ all_transient) => awaits = max_retries

\* C7: an attempt that fails with a rate limit carrying a retry-after duration is
\* followed by a sleep of exactly that duration before the next attempt, and the
\* stored backoff is left as it was.
C7_RetryAfterSleepsThatDuration ==
    [][(awaits' = awaits + 1 /\ outcome'.kind = "429"
            /\ outcome'.retry_after # NoRetryAfter)
         => /\ backoff_times' = backoff_times
            /\ rl_pc' = "loop"
            /\ sleeps' # <<>>
            /\ sleeps'[Len(sleeps')].kind = "retry_after"
            /\ sleeps'[Len(sleeps')].nominal = outcome'.retry_after]_vars

\* C8: right after execute returns the result of a successful attempt on key k, the
\* stored delay of k is the base value.
C8_SuccessResetsDelay ==
    (rl_pc = "returned" /\ rl_result = "result") => backoff_times[rl_key] = base_delay

\* A success after failed attempts, reached with a stored delay above the base.
C8_Witness ==
    /\ rl_pc = "returned"
    /\ rl_result = "result"
    /\ awaits >= 3
    /\ sleeps # <<>>
    /\ sleeps[1].kind = "pre"
    /\ sleeps[1].nominal > base_delay
    /\ backoff_times[rl_key] = base_delay

\* C9: a stored per-key delay lies between the base value and the maximum.
C9_DelayWithinBounds ==
    \A k \in Keys :
        backoff_times[k] # 0 => (base_delay <= backoff_times[k] /\ backoff_times[k] <= max_delay)

\* A failure met with the delay already at the maximum: the doubling is capped.
C9_Witness ==
    /\ rl_pc = "loop"
    /\ Len(sleeps) = 2
    /\ sleeps[1].kind = "pre" /\ sleeps[1].nominal = max_delay
    /\ sleeps[2].kind = "backoff" /\ sleeps[2].nominal = max_delay
    /\ backoff_times[rl_key] = max_delay

\* C10: every sleep of execute has the jitter factor applied.
C10_EverySleepJittered ==
    \A i \in DOMAIN sleeps : sleeps[i].jittered


\* Helpers of the chunk_content claims: trailing whitespace removed, texts joined with
\* newlines, texts concatenated, a leading separator removed.
RECURSIVE RStrip(_)
RStrip(s) == IF s # <<>> /\ s[Len(s)] = Newline THEN RStrip(SubSeq(s, 1, Len(s) - 1)) ELSE s

RECURSIVE JoinNewline(_)
JoinNewline(ts) ==
    IF ts = <<>> THEN <<>>
    ELSE IF Len(ts) = 1 THEN ts[1]
    ELSE ts[1] \o <<Newline>> \o JoinNewline(Tail(ts))

RECURSIVE Concat(_)
Concat(ts) == IF ts = <<>> THEN <<>> ELSE Head(ts) \o Concat(Tail(ts))

HasSeparator(t) == Len(t) >= Len(Separator) /\ SubSeq(t, 1, Len(Separator)) = Separator

StripSeparator(t) == IF HasSeparator(t) THEN SubSeq(t, Len(Separator) + 1, Len(t)) ELSE t

\* C11: the chunk texts, each with its trailing whitespace removed, joined with
\* newlines give the input text with its trailing whitespace removed.
C11_RejoinReproducesInput ==
    cc_pc = "done" =>
        RStrip(JoinNewline([i \in DOMAIN cc_chunks |-> RStrip(cc_chunks[i].text)]))
            = RStrip(cc_content)

\* C12: every chunk returned has at most max_length characters.
C12_ChunkWithinMaxLength ==
    cc_pc = "done" => \A i \in DOMAIN cc_chunks : StrLen(cc_chunks[i].text) <= cc_max

\* C13: no line is split: apart from the separators, the chunks in order are the input
\* lines in order, each whole and each once, and every chunk ends at a line end.
C13_LinesKeptWhole ==
    cc_pc = "done" =>
        /\ Concat([i \in DOMAIN cc_chunks |-> StripSeparator(cc_chunks[i].text)])
              = cc_content \o <<Newline>>
        /\ \A i \in DOMAIN cc_chunks :
              cc_chunks[i].text # <<>> /\ cc_chunks[i].text[Len(cc_chunks[i].text)] = Newline

\* A text cut by the length ceiling and by an emoji line into three chunks or more.
C13_Witness ==
    /\ cc_pc = "done"
    /\ Len(cc_chunks) >= 3
    /\ cc_max < DefaultMaxLength
    /\ \E i \in DOMAIN cc_chunks : HasSeparator(cc_chunks[i].text)
    /\ \E i \in DOMAIN cc_chunks : ~HasSeparator(cc_chunks[i].text) /\ i > 1

\* C14: the ids attached to a chunk are exactly the ids found in the lines of that chunk.
C14_ChunkLinksAreItsOwn ==
    cc_pc = "done" =>
        \A i \in DOMAIN cc_chunks : cc_chunks[i].links = MessageLinksOf(cc_chunks[i].text)

\* Two chunks, each with a link of its own.
C14_Witness ==
    /\ cc_pc = "done"
    /\ Len(cc_chunks) = 2
    /\ cc_chunks[1].links = {"m1"}
    /\ cc_chunks[2].links = {"m2"}


\* The step is a process_attachment call
IsCall == pa_calls' = pa_calls + 1

\* C15: a payload downloaded with status 200 is rejected exactly when its size exceeds
\* max_size: the call then returns None and the cache is as before; otherwise the
\* record is appended to the bucket of its message and returned.
C15_RejectsExactlyOversized ==
    [][(IsCall /\ ~pa_call'.dl.error /\ pa_call'.dl.status = 200) =>
          IF pa_call'.dl.size > max_size
          THEN pa_call'.result = "none" /\ attachment_cache' = attachment_cache
          ELSE /\ pa_call'.result = "stored"
               /\ Len(AllAttachments(attachment_cache')) = Len(AllAttachments(attachment_cache)) + 1
               /\ \E i \in DOMAIN attachment_cache' :
                     /\ attachment_cache'[i].key = pa_call'.key
                     /\ LET a == attachment_cache'[i].attachments
                        IN a[Len(a)].filename = pa_call'.filename]_vars

\* A payload of one byte more than max_size was rejected and one of exactly max_size
\* has just been stored.
C15_Witness ==
    /\ \E e \in pa_log : e[3] = "too_large"
    /\ pa_calls > 0
    /\ pa_call.dl.size = max_size
    /\ pa_call.result = "stored"
    /\ attachment_cache # <<>>

\* The number of occurrences of x in a sequence
Count(x, s) == Cardinality({i \in DOMAIN s : s[i] = x})

\* C17: get_all_files_sorted returns every cached record exactly once, in
\* non-increasing reaction_count order.
C17_AllRecordsOnceDescending ==
    LET res == get_all_files_sorted
    IN /\ Len(res) = Len(inserted)
       /\ \A i \in DOMAIN inserted : Count(inserted[i], res) = Count(inserted[i], inserted)
       /\ \A i, j \in DOMAIN res : i < j => res[i].rc >= res[j].rc

\* Records of two messages inserted in increasing reaction order.
C17_Witness ==
    /\ Len(inserted) >= 3
    /\ inserted[1].rc < inserted[2].rc
    /\ inserted[1].msg # inserted[2].msg
    /\ Len(attachment_cache) = 2
    /\ get_all_files_sorted[1].rc > get_all_files_sorted[Len(inserted)].rc

\* The records of s with reaction_count r, in the order of s
RECURSIVE WithReactions(_, _)
WithReactions(s, r) ==
    IF s = <<>> THEN <<>>
    ELSE (IF Head(s).rc = r THEN <<Head(s)>> ELSE <<>>) \o WithReactions(Tail(s), r)

\* C18: in the result of get_all_files_sorted, records with equal reaction_count are
\* in the order in which they were inserted into the cache.
C18_TiesInInsertionOrder ==
    \A r \in CallReactions :
        WithReactions(get_all_files_sorted, r) = WithReactions(inserted, r)


\* The step is a process_attachment call that met a non-success HTTP status
IsBadStatusCall == IsCall /\ ~pa_call'.dl.error /\ pa_call'.dl.status # 200

\* The scan goes on with the next attachment of the same message
ScanGoesOn == gs_pc' = "scan" /\ gs_ci' = gs_ci /\ gs_mi' = gs_mi /\ gs_ai' = gs_ai + 1

\* C16: on a non-success HTTP status process_attachment signals an error to its caller,
\* the cache is left as it was and the scan goes on with the next attachment.
C16_BadStatusRaisesToCaller ==
    [][IsBadStatusCall =>
          /\ pa_call'.result = "raised"
          /\ attachment_cache' = attachment_cache
          /\ ScanGoesOn]_vars

\* A bucket of the cache holds a record with this filename
Cached(key, f) ==
    \E i \in DOMAIN attachment_cache :
        /\ attachment_cache[i].key = key
        /\ \E a \in DOMAIN attachment_cache[i].attachments :
              attachment_cache[i].attachments[a].filename = f

\* C16 as amended: on a non-success HTTP status process_attachment logs the failure and
\* returns None (no error reaches the caller), the cache is left as it was, the scan
\* goes on with the next attachment, and a scan that returns its messages has
\* stored or logged every attachment of the history.
C16_BadStatusSkipsOneAttachment ==
    /\ [][IsBadStatusCall =>
             /\ pa_call'.result = "none"
             /\ <<pa_call'.key, pa_call'.filename, "status">> \in pa_log'
             /\ attachment_cache' = attachment_cache
             /\ ScanGoesOn]_vars
    /\ [](gs_pc = "summarise" /\ messages > 0 =>
             \A i \in DOMAIN History(ScannedChannel) :
                 LET m == History(ScannedChannel)[i]
                 IN \A a \in DOMAIN ScanFiles(m) :
                        \/ Cached(CacheKey(ScannedChannel, m), ScanFiles(m)[a])
                        \/ \E e \in pa_log : e[1] = CacheKey(ScannedChannel, m)
                                               /\ e[2] = ScanFiles(m)[a])

\* The first attachment of m1 met a non-success status; the second attachment of m1
\* and the attachment of m2 were cached by the same scan.
C16_Witness ==
    /\ gs_pc = "summarise"
    /\ gs_ci = 1
    /\ ~dev_mode
    /\ <<CacheKey(SRC, "m1"), "a.png", "status">> \in pa_log
    /\ ~Cached(CacheKey(SRC, "m1"), "a.png")
    /\ Cached(CacheKey(SRC, "m1"), "b.png")
    /\ Cached(CacheKey(SRC, "m2"), "a.png")

\* C19: while a channel is scanned, summarised and posted, every bucket of the cache
\* was added by the scan of the current loop iteration.
C19_CacheHoldsOnlyCurrentChannel ==
    gs_pc \in {"scan", "summarise", "post"} =>
        /\ Len(cache_iter) = Len(attachment_cache)
        /\ \A i \in DOMAIN cache_iter : cache_iter[i] = gs_ci

\* The second channel is being posted with its own records in the cache, after the
\* records stored for the first channel were cleared.
C19_Witness ==
    /\ gs_pc = "post"
    /\ gs_ci = 2
    /\ attachment_cache # <<>>
    /\ pa_calls > Len(inserted) + Cardinality(pa_log)


\* The candidates of the topic: every prepared file, in preparation order
TopicCandidates == PreparedFiles(tp_order)

\* The candidates that were not selected
DroppedCandidates ==
    {TopicCandidates[i] : i \in DOMAIN TopicCandidates}
        \ {tp_files[i] : i \in DOMAIN tp_files}

\* C20: the attachments selected for a topic are candidates of the topic, in
\* non-increasing reaction_count order, at most 10, and no dropped candidate has more
\* reactions than a selected one.
C20_TopTenByReactions ==
    tp_pc = "done" =>
        /\ Len(tp_files) <= TopN
        /\ \A i, j \in DOMAIN tp_files : i < j => tp_files[i].rc >= tp_files[j].rc
        /\ \A i \in DOMAIN tp_files :
              \E c \in DOMAIN TopicCandidates : TopicCandidates[c] = tp_files[i]
        /\ \A d \in DroppedCandidates : \A i \in DOMAIN tp_files : d.rc <= tp_files[i].rc

\* More than 10 candidates, the message with fewer reactions iterated first, and a
\* file of that message dropped.
C20_Witness ==
    /\ tp_pc = "done"
    /\ Len(TopicCandidates) > TopN
    /\ Len(tp_files) = TopN
    /\ TopicCandidates[1].rc < TopicCandidates[Len(TopicCandidates)].rc
    /\ \E d \in DroppedCandidates : d.rc < tp_files[1].rc


SectionPosted ==
    (IF pc \in {"src_header", "src_topics", "notify", "done"} THEN {thread} ELSE {})
    \cup (IF pc \in {"notify", "done"} THEN {source_thread} ELSE {})

\* The messages some topic of the summary links to
LinkedMsgs == {l[2] : l \in UNION {topics[i] : i \in DOMAIN topics}}

\* C22: no attachment of a bucket with fewer than 3 reactions is collected for or
\* posted in the unused-attachments section, and an attachment of a bucket with 3
\* reactions (or more) is collected and posted when no topic links to its message and
\* its filename is not one of the used filenames.
C22_ThresholdIsThreeInclusive ==
    /\ \A t \in Threads : \A i \in DOMAIN unused_attachments[t] :
          BucketOf(CacheKey(SRC, unused_attachments[t][i].msg)).reaction_count
              >= MinReactions
    /\ \A i \in DOMAIN sent :
          sent[i].kind = "unused" =>
              BucketOf(CacheKey(SRC, sent[i].msg)).reaction_count >= MinReactions
    /\ \A t \in SectionPosted : \A k \in DOMAIN attachment_cache :
          LET b == attachment_cache[k]
          IN (b.reaction_count >= MinReactions /\ MessagePart(b.key) \notin LinkedMsgs) =>
                \A a \in DOMAIN b.attachments :
                    b.attachments[a].filename \notin used_filenames[t] =>
                        /\ \E i \in DOMAIN unused_attachments[t] :
                              /\ unused_attachments[t][i].file = b.attachments[a].filename
                              /\ unused_attachments[t][i].msg = MessagePart(b.key)
                        /\ \E i \in ThreadMsgs(t) :
                              /\ sent[i].kind = "unused"
                              /\ sent[i].file = b.attachments[a].filename
                              /\ sent[i].msg = MessagePart(b.key)

\* A section was posted from a cache holding a bucket with 2 reactions, left out, and
\* a bucket with exactly 3 reactions of a message no topic links to, posted.
C22_Witness ==
    \E t \in SectionPosted :
        /\ \E k \in DOMAIN attachment_cache :
              attachment_cache[k].reaction_count < MinReactions
        /\ \E i \in ThreadMsgs(t) :
              /\ sent[i].kind = "unused"
              /\ sent[i].msg \notin LinkedMsgs
              /\ BucketOf(CacheKey(SRC, sent[i].msg)).reaction_count = MinReactions

\* The entries posted by the call, in posting order
PostedEntries == SelectSeq(ua_sent, LAMBDA x : x.kind = "unused")

\* The candidates of the call that are not among the posted entries
LeftOut ==
    LET c == Candidates(attachment_cache, ua_ids, ua_names)
    IN {c[i] : i \in DOMAIN c} \ {[file |-> PostedEntries[i].file, rc |-> PostedEntries[i].rc,
                                     msg |-> PostedEntries[i].msg] : i \in DOMAIN PostedEntries}

\* C23: the entries posted in the unused-attachments section are in non-increasing
\* reaction_count order, number at most the limit of the call, and no candidate left
\* out has more reactions than a posted one.
C23_PostedTopByReactions ==
    /\ \A i, j \in DOMAIN PostedEntries :
          i < j => PostedEntries[i].rc >= PostedEntries[j].rc
    /\ Len(PostedEntries) <= ua_max
    /\ \A c \in LeftOut : \A i \in DOMAIN PostedEntries : c.rc <= PostedEntries[i].rc

\* A call with the default limit that posted 10 entries with different reaction counts
\* and left out a candidate with fewer reactions than the first posted.
C23_Witness ==
    /\ ua_pc = "done"
    /\ ua_max = DefaultMaxAttachments
    /\ Len(PostedEntries) = DefaultMaxAttachments
    /\ PostedEntries[1].rc > PostedEntries[DefaultMaxAttachments].rc
    /\ \E c \in LeftOut : c.rc < PostedEntries[1].rc

\* C24: once the call has ended after a failed send of entry K, every other entry
\* within the limit and the thread footer have been posted.
C24_FailedEntrySkipped ==
    (ua_pc \in {"done", "raised"} /\ ua_failed # {}) =>
        LET entries == UnusedEntries(ua_found, ua_max)
        IN /\ \A i \in DOMAIN entries :
                 i \notin ua_failed =>
                     \E k \in DOMAIN ua_sent : ua_sent[k] = UnusedMsg("unused", entries[i])
           /\ \E k \in DOMAIN ua_sent : ua_sent[k].kind = "footer"

\* C25: a failure while processing one monitored channel never aborts the run: once
\* the run has ended, the iteration of every monitored channel that can be reached has
\* been run.
C25_ChannelFailureNeverAborts ==
    gs_pc \in {"done", "aborted"} =>
        \A i \in DOMAIN channels_to_monitor :
            channels_to_monitor[i] \in gs_reach =>
                /\ i \in DOMAIN channels_to_process
                /\ channels_to_process[i] = channels_to_monitor[i]
                /\ gs_ci > i

\* The invocations executing the summary body
InBody == {p \in Invocations : lk_pc[p] = "body"}

\* C26: at most one generate_summary invocation executes the summary body at any
\* time, and it does so holding the lock.
C26_SummaryRunsExclusive ==
    /\ Cardinality(InBody) <= 1
    /\ InBody # {} => lk_locked

\* An invocation is in the body, past an await, while a second one is waiting for the
\* lock and a third has left the body.
C26_Witness ==
    \E p, q \in Invocations :
        /\ lk_pc[p] = "body" /\ lk_step[p] > 0
        /\ lk_pc[q] = "waiting"
        /\ \E r \in Invocations \ {p} : lk_pc[r] \in {"returned", "raised"}

\* block occurs in text at index i
OccursAt(text, block, i) ==
    i + Len(block) - 1 <= Len(text) /\ SubSeq(text, i, i + Len(block) - 1) = block

\* the blocks from the k-th on occur in text one after the other, from index from on
RECURSIVE InOrderFrom(_, _, _, _)
InOrderFrom(text, blocks, k, from) ==
    IF k > Len(blocks) THEN TRUE
    ELSE \E i \in from..(Len(text) + 1) :
            /\ OccursAt(text, blocks[k], i)
            /\ InOrderFrom(text, blocks, k + 1, i + Len(blocks[k]))

\* C27: the split yields the topic blocks in their original order, and no block
\* handed on for posting is empty or whitespace-only.
C27_SplitKeepsOrderNoEmptyBlock ==
    sp_pc = "done" =>
        /\ InOrderFrom(sp_summary, sp_topics, 1, 1)
        /\ \A i \in DOMAIN sp_topics : Strip(sp_topics[i]) # <<>>

\* C28: generate_short_summary makes at most 3 LLM calls, never raises, and returns
\* a text: the answer of the first call that succeeds, or a fallback line when all
\* 3 calls failed.
C28_ShortSummaryAlwaysReturnsText ==
    /\ Len(ss_outcomes) <= short_max_retries
    /\ ss_pc # "raised"
    /\ (ss_pc = "returned") =>
          /\ ss_result.kind \in {"text", "fallback"}
          /\ ss_result.kind = "text" <=> ss_outcomes[Len(ss_outcomes)] = "ok"
          /\ ss_result.kind = "fallback" <=>
                /\ Len(ss_outcomes) = short_max_retries
                /\ \A i \in DOMAIN ss_outcomes : ss_outcomes[i] # "ok"

\* A call whose three LLM calls failed, the last with an API error, returned the
\* fallback line.
C28_Witness ==
    /\ ss_pc = "returned"
    /\ Len(ss_outcomes) = short_max_retries
    /\ ss_outcomes[short_max_retries] = "api_error"
    /\ ss_result.kind = "fallback"

\* C29: an attempt that fails with an unexpected, non-platform error ends the call
\* on that attempt with that error raised to the caller, and leaves the stored
\* backoff of every key as it was.
C29_UnexpectedErrorPropagates ==
    [][(awaits' = awaits + 1 /\ outcome'.kind = "unexpected")
         => /\ rl_pc' = "raised"
            /\ rl_result' = "Exception"
            /\ backoff_times' = backoff_times]_vars

\* C30: in a call made with the coroutine object of a send, as safe_send_message
\* makes it, every pass of the loop after a failed attempt performs the send again.
C30_RetryReissuesSend ==
    [][(InLoop /\ awaits > 0 /\ ~rl_reusable) => awaits' = awaits + 1]_vars

\* C31: whatever the outcomes of the attempts, one execute call awaits the operation
\* at most 5 times, and every call that entered the loop ends by returning or raising.
C31_AtMostFiveAttemptsThenEnds ==
    /\ [](awaits <= max_retries)
    /\ [](rl_pc = "loop" => <>(rl_pc \in {"returned", "raised"}))

\* A call that ended after 5 attempts, none of which succeeded.
C31_Witness ==
    /\ rl_pc \in {"returned", "raised"}
    /\ awaits = max_retries
    /\ outcome.kind # "ok"

\* The messages sent to thread t, in sending order
ThreadSeq(t) == SelectSeq(sent, LAMBDA x : x.dest = t)

\* The part of a thread's content a message belongs to
Phase(kind) ==
    IF kind = "header" THEN 1
    ELSE IF kind \in {"topic", "attachment"} THEN 2
    ELSE IF kind = "unused_header" THEN 3
    ELSE IF kind = "unused" THEN 4
    ELSE 5

\* The index of the topic whose text is recorded under id
TopicIndex(id) == CHOOSE i \in 1..4 : TopicId(i) = id

\* The topic text that precedes position i of ms
RECURSIVE TopicBefore(_, _)
TopicBefore(ms, i) ==
    IF i = 0 THEN 0
    ELSE IF ms[i].kind = "topic" THEN TopicIndex(ms[i].msg)
    ELSE TopicBefore(ms, i - 1)

\* C32: within one destination thread the messages of a run come in this order: the
\* thread header, the topics in summary order with each topic's text before that
\* topic's attachments, the Other Popular Attachments header followed by its entries,
\* the navigation footer.
C32_ThreadMessagesInOrder ==
    \A t \in Threads :
        LET ms == ThreadSeq(t)
        IN /\ ms # <<>> => ms[1].kind = "header"
           /\ \A i, j \in DOMAIN ms : i < j =>
                 /\ Phase(ms[i].kind) <= Phase(ms[j].kind)
                 /\ ms[i].kind = ms[j].kind =>
                       ms[i].kind \in {"topic", "attachment", "unused"}
                 /\ (ms[i].kind = "topic" /\ ms[j].kind = "topic") =>
                       TopicIndex(ms[i].msg) < TopicIndex(ms[j].msg)
           /\ \A i \in DOMAIN ms :
                 ms[i].kind = "attachment" =>
                     /\ TopicBefore(ms, i) # 0
                     /\ <<SRC, ms[i].msg>> \in topics[TopicBefore(ms, i)]

\* A run that posted, to one thread, the header, two topics of which the second has
\* attachments, the section of other attachments with an entry, and the footer.
C32_Witness ==
    \E t \in Threads :
        LET ms == ThreadSeq(t)
        IN /\ Len(ms) >= 7
           /\ ms[Len(ms)].kind = "footer"
           /\ \E i, j, k, u \in DOMAIN ms :
                 /\ i < j /\ j < k /\ k < u
                 /\ ms[i].kind = "topic" /\ ms[j].kind = "topic"
                 /\ ms[k].kind = "attachment"
                 /\ ms[u].kind = "unused"

\* C33: when the top generations are taken at the end of a run with an active
\* channel, the cache still holds every video this run cached, whichever channel it
\* was cached from, and the ranking reads all of them.
C33_TopGenerationsSeeAllChannels ==
    (gs_pc = "done" /\ active_channels) =>
        /\ \A k \in gs_videos : Cached(k, "v.mp4")
        /\ gs_videos \subseteq top_candidates

\* The scheduler tasks still looping, and the tasks inside generate_summary.
ActiveSchedulers ==
    {t \in DOMAIN sd_tasks : sd_tasks[t].kind = "sched" /\ sd_tasks[t].pc # "raised"}
Running == {t \in DOMAIN sd_tasks : sd_tasks[t].pc = "run"}

\* C34: however many ready events fire, at most one schedule_daily_summary task is
\* active and at most one generate_summary run is executing at any time.
C34_OneSchedulerOneRun ==
    /\ Cardinality(ActiveSchedulers) <= 1
    /\ Cardinality(Running) <= 1

\* The number of failures at the end of a scheduler's run history.
RECURSIVE TrailingFails(_)
TrailingFails(outs) ==
    IF outs = <<>> \/ outs[Len(outs)] # "fail" THEN 0
    ELSE 1 + TrailingFails(SubSeq(outs, 1, Len(outs) - 1))

\* C35: in every scheduler task of main.py the failure counter is the number of
\* failed runs since the last successful one (zero after a success), and the task
\* has stopped by re-raising exactly when its last three runs all failed; with
\* fewer it is still sleeping, running or backing off.
C35_StopsExactlyAtThreeFailuresInARow ==
    \A t \in DOMAIN sd_tasks :
        sd_tasks[t].kind = "sched" =>
            /\ sd_tasks[t].consecutive_failures = TrailingFails(sd_tasks[t].outcomes)
            /\ (sd_tasks[t].pc = "raised") <=> (TrailingFails(sd_tasks[t].outcomes) >= 3)
            /\ sd_tasks[t].pc \in {"sleep", "run", "backoff", "raised"}

\* A scheduler that failed, succeeded, and then stopped on three failures in a row.
C35_Witness ==
    \E t \in DOMAIN sd_tasks :
        /\ sd_tasks[t].pc = "raised"
        /\ sd_tasks[t].outcomes = <<"ok", "fail", "fail", "fail">>
        /\ \E u \in DOMAIN sd_tasks : sd_tasks[u].outcomes = <<"fail", "fail", "ok">>

\* C36: while shutdown is not requested, consecutive generate_summary runs start
\* 24 hours apart, each at 10:00 UTC of the day after the previous one.
C36_RunsStartOnceADay ==
    \A i \in 1..Len(ds_starts) :
        /\ ds_starts[i] % DayHours = RunHour
        /\ i > 1 => ds_starts[i] = ds_starts[i - 1] + DayHours

\* C37: when generate_summary has finished with _shutdown_flag set, so that its
\* finally clause called cleanup, the session is closed and the Claude client and
\* the database handler are released.
C37_TriggeredCleanupReleases ==
    (cl_gs_pc \in {"returned", "raised"} /\ cl_triggered \in {"skipped", "ran"}) =>
        /\ cl_session # "open"
        /\ ~cl_claude
        /\ ~cl_db

\* C38: right after a health check that returned false, _connection_healthy is false.
C38_UnhealthyCheckClearsFlag ==
    bb_check = "unhealthy" => ~_connection_healthy

\* C39: a finalize_sharing call that has asked for a download or posted to a
\* platform read a record with sharing_consent true when it was called.
C39_NoDownloadOrPostWithoutConsent ==
    (sh_pc # "idle" /\ (sh_attempted # <<>> \/ sh_posts # <<>>)) => sh_at_call = "consented"

\* A call that downloaded a video and posted it to Twitter and the three webhooks,
\* the user having withdrawn consent after the call had read the record.
C39_Witness ==
    /\ sh_pc = "done"
    /\ sh_attempted = <<"v.mp4">>
    /\ sh_posts = <<"twitter", "instagram", "tiktok", "youtube">>
    /\ sh_at_call = "consented"
    /\ sh_member = "refused"
====
